---- MODULE Spec2Model ----
(***************************************************************************)
(* Row-processing state machine of sbr_automation: process_autofill and    *)
(* process_cancel driving a browser context row by row, the Log Book, the  *)
(* run counters, the open tabs, and resume from the log of an earlier run. *)
(***************************************************************************)
EXTENDS Integers, Sequences, FiniteSets, TLC

\* Rows of the Excel sheet; the selected range is 1..end_display.
NumRows == 3
\* Runs chained through the saved autofill log (a first run, then resume runs).
MaxRuns == 3

Rows == 1..NumRows

\* The only exception class the browser driver raises (playwright Error).
PlaywrightError == "PlaywrightError"

\* The listing tab picked by pick_active_page; E, L, H are form tabs a row opens:
\* E exists before open_form_page snapshots the pages, L appears during its
\* waits, H is opened by the href fallback.
ListingPage == "P"
RowTabs == {"E", "L", "H"}

VARIABLES
  command,         \* "autofill" (process_autofill) or "cancel" (process_cancel)
  stop_on_error,   \* options.stop_on_error
  dry_run,         \* options.dry_run
  resume,          \* options.resume
  resume_entries,  \* display index -> prior log row, from load_resume_entries
  pc,              \* position in the row loop
  idx,             \* display index of the row being processed
  events,          \* LogBook._events
  ok_rows, error_rows, skipped_rows,
  pages,           \* open pages among ListingPage and RowTabs (context.pages)
  stray,           \* tabs left open by earlier rows (also in context.pages)
  front,           \* the page in front; "S" a stray tab, "none" no known page
  new_page,        \* the form page of the row, "none" before it is resolved
  pending,         \* what the edit click still has to produce: none, tab, nav
  how_opened,      \* strategy by which open_form_page resolved the form page
  ops,             \* history: UI operations performed on each row in this run
  cnt,             \* history: counter increments made for each row in this run
  clicked,         \* history: what the edit click returned for each row
  log_csv,         \* rows of the autofill log CSV of this run's log path
  log_status,      \* that file: "missing", "unreadable" or "ok"
  start_display,   \* first display index of the range (load_rows)
  end_display,     \* last display index of the range (load_rows)
  run_no,          \* number of the run, 1..MaxRuns
  completed,       \* history: rows submitted or found finalized by any run
  raised,          \* the exception that left the row loop, "" if none
  call_env,        \* what the page does during the call being followed
  call_result,     \* what that call returned and the steps it ran
  run_index,       \* the entry of this run in the run index (index.csv)
  attention_flag   \* config.attention_flag: whether set, whether the file exists

vars == <<command, stop_on_error, dry_run, resume, resume_entries, pc, idx,
          events, ok_rows, error_rows, skipped_rows, pages, stray, front,
          new_page, pending, how_opened, ops, cnt, clicked, log_csv,
          log_status, start_display, end_display, run_no, completed, raised,
          call_env, call_result, run_index, attention_flag>>

options == <<command, stop_on_error, dry_run, resume, resume_entries>>

----------------------------------------------------------------------------
\* LogEvent: the note is a sequence of text fragments.
LogEvent(r, lvl, stg, nt) ==
  [row_index |-> r, level |-> lvl, stage |-> stg, note |-> nt]

\* describe_exception: "<class name>: <message>".
describe_exception(exc) == <<exc>>

NoCount == [ok |-> 0, error |-> 0, skip |-> 0]
CountOk == [ok |-> 1, error |-> 0, skip |-> 0]
CountError == [ok |-> 0, error |-> 1, skip |-> 0]
CountError2 == [ok |-> 0, error |-> 2, skip |-> 0]
CountSkip == [ok |-> 0, error |-> 0, skip |-> 1]

\* Page.close(): the page leaves context.pages; closing the page in front
\* gives the focus back to its opener, the listing tab, when that is open.
ClosePage(pgs, p) == pgs \ {p}
FrontAfterClose(pgs, fr, p) ==
  IF fr # p THEN fr
  ELSE IF ListingPage \in ClosePage(pgs, p) THEN ListingPage ELSE "none"

\* Any operation on a closed page raises playwright's Error.
IsClosed(pgs, p) == p \notin pgs

----------------------------------------------------------------------------
\* resume.py

RESUME_ELIGIBLE_LEVELS == {"OK"}

\* str.upper() on the level cell.
Upper(s) ==
  CASE s = "ok" -> "OK"
    [] s = "warn" -> "WARN"
    [] s = "error" -> "ERROR"
    [] OTHER -> s

\* The log file at a path: whether it exists, whether it can be read, and its
\* CSV rows.  row_index -1 stands for a cell that is not a digit string.
LogFile(status, rows) ==
  [exists |-> status # "missing", readable |-> status = "ok", rows |-> rows]

\* entries = {int(row["row_index"]): row for row in reader if isdigit}: a later
\* row of the same index replaces the earlier one.
LogEntryIndices(rows) ==
  {rows[k].row_index : k \in {j \in DOMAIN rows : rows[j].row_index >= 0}}
LastPosition_First(rows, i) ==
  CHOOSE k \in DOMAIN rows :
    /\ rows[k].row_index = i
    /\ \A j \in DOMAIN rows : rows[j].row_index = i => k <= j
LastPosition(rows, i) ==
  CHOOSE k \in DOMAIN rows :
    /\ rows[k].row_index = i
    /\ \A j \in DOMAIN rows : rows[j].row_index = i => j <= k
LogEntries(rows) ==
  [i \in LogEntryIndices(rows) |-> rows[LastPosition(rows, i)]]

\* Faulty variant: the range test is left out.
IsEligible_AnyIndex(i, row, first, last) ==
  Upper(row.level) \in RESUME_ELIGIBLE_LEVELS

IsEligible(i, row, first, last) ==
  /\ ~(i < first \/ i > last)
  /\ Upper(row.level) \in RESUME_ELIGIBLE_LEVELS

load_resume_entries(file, first, last) ==
  IF ~file.exists THEN <<>>
  ELSE IF ~file.readable THEN <<>>
  ELSE LET entries == LogEntries(file.rows)
           eligible == {i \in DOMAIN entries :
                          IsEligible(i, entries[i], first, last)}
       IN  [i \in eligible |-> entries[i]]

\* Faulty variant: the prior note is not carried forward.
ResumeNote_NoDetail(prev) ==
  <<"Dilewati (resume)", prev.level>>

\* The note of a RESUME_SKIP event: the prior level, stage and note.
ResumeNote(prev) ==
  <<"Dilewati (resume)", prev.level>>
    \o (IF prev.stage # "" THEN <<prev.stage>> ELSE <<>>)
    \o prev.note

----------------------------------------------------------------------------
\* The tail shared by every step of the row loop.  o.next is "continue" or
\* "break" (the loop statements), "crashed" (an exception leaves the loop, and
\* process_autofill / process_cancel with it), or the next position in the row.

Step(o) ==
  /\ events' = events \o o.evs
  /\ ok_rows' = ok_rows + o.inc.ok
  /\ error_rows' = error_rows + o.inc.error
  /\ skipped_rows' = skipped_rows + o.inc.skip
  /\ cnt' = [cnt EXCEPT ![idx] = [ok |-> @.ok + o.inc.ok,
                                  error |-> @.error + o.inc.error,
                                  skip |-> @.skip + o.inc.skip]]
  /\ ops' = [ops EXCEPT ![idx] = @ \cup o.ops]
  /\ clicked' = IF o.clicked = "" THEN clicked ELSE [clicked EXCEPT ![idx] = o.clicked]
  /\ completed' = IF o.done THEN completed \cup {idx} ELSE completed
  /\ IF o.next \in {"continue", "break"}
       THEN /\ pc' = IF o.next = "continue" /\ idx < end_display THEN "row" ELSE "finish"
            /\ idx' = IF o.next = "continue" /\ idx < end_display THEN idx + 1 ELSE idx
            /\ pages' = o.pages \cap {ListingPage}
            /\ stray' = stray + Cardinality(o.pages \ {ListingPage})
            /\ front' = IF o.front \in RowTabs THEN "S" ELSE o.front
            /\ new_page' = "none"
            /\ pending' = "none"
            /\ how_opened' = "none"
            /\ raised' = raised
       ELSE /\ pc' = o.next
            /\ idx' = idx
            /\ pages' = o.pages
            /\ stray' = stray
            /\ front' = o.front
            /\ new_page' = o.new_page
            /\ pending' = o.pending
            /\ how_opened' = o.how
            /\ raised' = IF o.next = "crashed" THEN PlaywrightError ELSE raised
  /\ call_env' = o.env
  /\ call_result' = o.result
  /\ UNCHANGED <<options, log_csv, log_status, start_display, end_display, run_no,
                 run_index, attention_flag>>

\* The step that changes nothing but what it names.
Same ==
  [evs |-> <<>>, inc |-> NoCount, ops |-> {}, clicked |-> "", done |-> FALSE,
   next |-> pc,
   pages |-> pages, front |-> front, new_page |-> new_page,
   pending |-> pending, how |-> how_opened,
   env |-> call_env, result |-> call_result]

\* Faulty variant: every ERROR event halts the run.
AfterError_AlwaysBreak(stop) == "break"

\* "if options.stop_on_error: break / continue" after an ERROR event.
AfterError(stop) == IF stop THEN "break" ELSE "continue"

----------------------------------------------------------------------------
\* State after construction: the options are parsed, the rows loaded, the Log
\* Book empty, the browser attached with the listing tab in front.

NoOps == [r \in Rows |-> {}]
NoCounts == [r \in Rows |-> NoCount]
NoClicks == [r \in Rows |-> "none"]
\* No call is being followed.
NoCall == [fn |-> "none"]

\* The first run over a range of rows; no log of an earlier run exists, so
\* load_resume_entries finds no file.
\* No attention flag is configured.
NoFlag == [configured |-> FALSE, exists |-> FALSE]

NoIndexEntry == [written |-> FALSE, ok_rows |-> 0, error_rows |-> 0, skipped_rows |-> 0]

\* load_rows: end_display 0 stands for a range that holds no row (--start
\* beyond the sheet, or an empty sheet); the loop then has nothing to do.
NoRows(last) == last = 0

FirstRun ==
  /\ log_csv = <<>>
  /\ log_status = "missing"
  /\ start_display = 1
  /\ end_display \in 0..NumRows
  /\ resume_entries = load_resume_entries(LogFile(log_status, log_csv),
                                          start_display, end_display)
  /\ pc = (IF NoRows(end_display) THEN "finish" ELSE "row")
  /\ idx = (IF NoRows(end_display) THEN 0 ELSE 1)
  /\ events = <<>>
  /\ ok_rows = 0 /\ error_rows = 0 /\ skipped_rows = 0
  /\ pages = {ListingPage}
  /\ stray = 0
  /\ front = ListingPage
  /\ new_page = "none"
  /\ pending = "none"
  /\ how_opened = "none"
  /\ ops = NoOps
  /\ cnt = NoCounts
  /\ clicked = NoClicks
  /\ run_no = 1
  /\ completed = {}
  /\ raised = ""
  /\ call_env = NoCall
  /\ call_result = NoCall
  /\ run_index = NoIndexEntry
  /\ attention_flag = NoFlag

\* A first run without --resume.
Init ==
  /\ command \in {"autofill", "cancel"}
  /\ stop_on_error \in BOOLEAN
  /\ dry_run \in (IF command = "autofill" THEN BOOLEAN ELSE {FALSE})
  /\ resume = FALSE
  /\ FirstRun

\* A first run of process_autofill, with or without --resume.
InitResume ==
  /\ command = "autofill"
  /\ stop_on_error \in BOOLEAN
  /\ dry_run \in BOOLEAN
  /\ resume \in BOOLEAN
  /\ FirstRun

----------------------------------------------------------------------------
\* process_autofill: the resume skip of a row.

ResumeSkips == command = "autofill" /\ resume /\ idx \in DOMAIN resume_entries

ResumeSkip ==
  /\ pc = "row"
  /\ ResumeSkips
  /\ LET prev == resume_entries[idx]
     IN  /\ Step([Same EXCEPT
                    !.evs = <<LogEvent(idx, "OK", "RESUME_SKIP", ResumeNote(prev))>>,
                    !.inc = CountSkip,
                    !.next = "continue"])
         \* resume_entries.pop(ctx.display_index) is covered by the loop
         \* visiting each display index once.

\* Faulty variant: the click is performed in dry-run mode too.
perform_click_Always == TRUE

\* perform_click=not options.dry_run (process_cancel always clicks).
perform_click == ~dry_run

\* What the site does after the edit control is clicked: nothing, a form tab
\* that exists before open_form_page looks (early), one that appears while it
\* waits (late), both (a double click), or a navigation of the listing tab.
Reactions == {"none", "tab_early", "tab_late", "tab_both", "nav"}

ClickResults == IF IsClosed(pages, ListingPage) THEN {"raises"}
                ELSE {"raises", "not_found", "found"}

ClickNote(code) ==
  IF command = "autofill" THEN <<code>>
  ELSE IF code = "CODE:CLICK_EDIT_EXCEPTION" THEN <<"Exception klik Edit">>
  ELSE <<"Tombol Edit tidak ditemukan">>

\* click_edit_by_index / click_edit_by_text and the rows up to the dry-run exit.
ClickEdit ==
  /\ pc = "row"
  /\ ~ResumeSkips
  /\ \E res \in ClickResults :
       \/ /\ res = "raises"
          /\ Step([Same EXCEPT
                     !.evs = <<LogEvent(idx, "ERROR", "CLICK_EDIT",
                                 ClickNote("CODE:CLICK_EDIT_EXCEPTION")
                                   \o describe_exception(PlaywrightError))>>,
                     !.inc = CountError,
                     !.ops = {"detect"},
                     !.clicked = "raised",
                     !.next = AfterError(stop_on_error)])
       \/ /\ res = "not_found"
          /\ Step([Same EXCEPT
                     !.evs = <<LogEvent(idx, "ERROR", "CLICK_EDIT",
                                 ClickNote("CODE:CLICK_EDIT_TIMEOUT"))>>,
                     !.inc = CountError,
                     !.ops = {"detect"},
                     !.clicked = "false",
                     !.next = AfterError(stop_on_error)])
       \/ /\ res = "found"
          /\ \E reaction \in (IF perform_click THEN Reactions ELSE {"none"}) :
               LET early == reaction \in {"tab_early", "tab_both"}
                   after == [Same EXCEPT
                     !.ops = IF perform_click THEN {"detect", "click"} ELSE {"detect"},
                     !.clicked = "true",
                     !.pages = IF early THEN pages \cup {"E"} ELSE pages,
                     !.front = IF early THEN "E" ELSE front,
                     !.pending = CASE reaction \in {"tab_late", "tab_both"} -> "tab"
                                   [] reaction = "nav" -> "nav"
                                   [] OTHER -> "none"]
               IN  IF dry_run
                     THEN Step([after EXCEPT
                            !.evs = <<LogEvent(idx, "OK", "DRY_RUN",
                                               <<"Tombol Edit ditemukan">>)>>,
                            !.inc = CountOk,
                            !.next = "continue"])
                     ELSE Step([after EXCEPT !.next = "confirm"])

\* The "Ya, edit!" confirmation: looked for, and clicked when the dialog is
\* present; a playwright Error of either is passed over.
ConfirmEdit ==
  /\ pc = "confirm"
  /\ \E dialog \in BOOLEAN :
       Step([Same EXCEPT
               !.ops = {"confirm"},
               !.next = "open"])

----------------------------------------------------------------------------
\* navigator.py: open_form_page.  `env` is what the browser does during the
\* call: for a pending tab, whether it arrives while wait_for_event listens
\* ("event") or during the pause before ("pages"); for a pending navigation
\* "url"; otherwise the outcome of the href fallback.

HrefResults == {"no_href", "raises", "tab", "nav", "nothing"}

OpenEnvs(pend) ==
  CASE pend = "tab" -> {"event", "pages"}
    [] pend = "nav" -> {"url"}
    [] OTHER -> HrefResults

NEW_TAB_NOTE == <<"Tab form baru terdeteksi">>
SAME_TAB_NOTE == <<"Form dibuka di tab yang sama">>
NO_TAB_DETAIL == <<"Tidak ada tab form">>

open_form_page(pgs, fr, env) ==
  CASE env = "event" ->
         [page |-> "L", note |-> NEW_TAB_NOTE, error |-> <<>>, how |-> "a",
          pages |-> pgs \cup {"L"}, front |-> "L"]
    [] env = "pages" ->
         [page |-> "L", note |-> NEW_TAB_NOTE, error |-> <<>>, how |-> "b",
          pages |-> pgs \cup {"L"}, front |-> "L"]
    [] env = "url" ->
         [page |-> ListingPage, note |-> SAME_TAB_NOTE, error |-> <<>>, how |-> "c",
          pages |-> pgs, front |-> fr]
    [] env = "tab" ->
         [page |-> "H", note |-> NEW_TAB_NOTE, error |-> <<>>, how |-> "d",
          pages |-> pgs \cup {"H"}, front |-> "H"]
    [] env = "nav" ->
         [page |-> ListingPage, note |-> SAME_TAB_NOTE, error |-> <<>>, how |-> "d",
          pages |-> pgs, front |-> fr]
    [] OTHER ->
         [page |-> "none", note |-> <<>>, error |-> NO_TAB_DETAIL, how |-> "none",
          pages |-> pgs, front |-> fr]

\* The pages of context.pages that were not there before the click and are
\* not the form page: closed as tabs of a double click.
ExtraPages(pgs, np) == (pgs \ {ListingPage}) \ {np}

\* process_autofill, from open_form_page to the OPEN_TAB event.
OpenForm ==
  /\ pc = "open"
  /\ command = "autofill"
  /\ \E env \in OpenEnvs(pending) :
       LET r == open_form_page(pages, front, env)
           extra == ExtraPages(r.pages, r.page)
           pgs == r.pages \ extra
           fr == IF r.front \in extra THEN ListingPage ELSE r.front
       IN  IF r.page = "none"
             THEN Step([Same EXCEPT
                    !.evs = <<LogEvent(idx, "ERROR", "OPEN_TAB", r.error)>>,
                    !.inc = CountError,
                    !.ops = {"open"},
                    !.pages = pgs, !.front = fr, !.pending = "none",
                    !.next = AfterError(stop_on_error)])
             ELSE Step([Same EXCEPT
                    !.evs = <<LogEvent(idx, "OK", "OPEN_TAB", r.note)>>,
                    !.ops = {"open"},
                    !.pages = pgs, !.front = r.page, !.new_page = r.page,
                    !.pending = "none", !.how = r.how,
                    !.next = "final"])

----------------------------------------------------------------------------
\* submitter.py: is_finalized_form and is_locked_page.

is_finalized_form(visible_cancel, visible_submit) ==
  IF ~visible_cancel THEN FALSE
  ELSE IF visible_submit THEN FALSE
  ELSE TRUE

\* What a page shows; every probe of a closed page raises and reads as absent.
Visible(pgs, p) == IF IsClosed(pgs, p) THEN {FALSE} ELSE BOOLEAN

\* page.bring_to_front() on the listing page after the form page was closed.
RefocusRaises(pgs) == IsClosed(pgs, ListingPage)

\* process_autofill: the finalized check and the FINAL_SKIP exit.
FinalCheck ==
  /\ pc = "final"
  /\ \E visible_cancel \in Visible(pages, new_page) :
     \E visible_submit \in Visible(pages, new_page) :
       IF is_finalized_form(visible_cancel, visible_submit)
         THEN LET pgs == ClosePage(pages, new_page)
                  skip == [Same EXCEPT
                    !.evs = <<LogEvent(idx, "OK", "FINAL_SKIP",
                                       <<"CODE:FINAL_ALREADY_SUBMITTED">>)>>,
                    !.ops = {"final_check", "close_form"},
                    !.done = TRUE,
                    !.pages = pgs,
                    !.front = FrontAfterClose(pages, front, new_page)]
              IN  IF RefocusRaises(pgs)
                    \* caught by the except of the finalized check: reported on
                    \* the console, and the row goes on to the lock check
                    THEN Step([skip EXCEPT !.next = "lock"])
                    ELSE Step([skip EXCEPT
                           !.inc = CountSkip,
                           !.front = ListingPage,
                           !.next = "continue"])
         ELSE Step([Same EXCEPT !.ops = {"final_check"}, !.next = "lock"])

\* process_autofill: the lock check and the WARN/ACCESS exit.
LockCheck ==
  /\ pc = "lock"
  /\ \E locked \in Visible(pages, new_page) :
       IF locked
         THEN LET pgs == ClosePage(pages, new_page)
                  warn == [Same EXCEPT
                    !.evs = <<LogEvent(idx, "WARN", "ACCESS", <<"CODE:FORM_LOCKED">>)>>,
                    !.ops = {"lock_check", "close_form"},
                    !.pages = pgs,
                    !.front = FrontAfterClose(pages, front, new_page)]
              IN  IF RefocusRaises(pgs)
                    THEN Step([warn EXCEPT !.next = "crashed"])
                    ELSE Step([warn EXCEPT
                           !.inc = CountSkip,
                           !.front = ListingPage,
                           !.next = "continue"])
         ELSE Step([Same EXCEPT !.ops = {"lock_check"}, !.next = "fill"])

----------------------------------------------------------------------------
\* process_autofill: fill_form and the FILL event.

FillResults == {"ok", "errors", "raises"}

FILL_ERRORS_NOTE == <<"Form terisi", "Kendala">>
FILL_EXCEPTION_NOTE == <<"Exception isi form">> \o describe_exception(PlaywrightError)

Fill ==
  /\ pc = "fill"
  /\ \E res \in FillResults :
       LET pgs == ClosePage(pages, new_page)
           closed == [Same EXCEPT
             !.ops = {"fill", "close_form"},
             !.pages = pgs,
             !.front = FrontAfterClose(pages, front, new_page)]
       IN
       \/ /\ res = "ok"
          /\ Step([Same EXCEPT
                     !.evs = <<LogEvent(idx, "OK", "FILL", <<"Form terisi">>)>>,
                     !.ops = {"fill"},
                     !.next = "submit"])
       \/ /\ res = "errors"
          /\ ~RefocusRaises(pgs)
          /\ Step([closed EXCEPT
                     !.evs = <<LogEvent(idx, "ERROR", "FILL", FILL_ERRORS_NOTE)>>,
                     !.inc = CountError,
                     !.front = ListingPage,
                     !.next = AfterError(stop_on_error)])
       \/ /\ res = "errors"
          /\ RefocusRaises(pgs)
          \* page.bring_to_front() raises inside the try: the except of the
          \* fill logs the row again, and without stop_on_error refocuses again
          /\ Step([closed EXCEPT
                     !.evs = <<LogEvent(idx, "ERROR", "FILL", FILL_ERRORS_NOTE),
                               LogEvent(idx, "ERROR", "FILL", FILL_EXCEPTION_NOTE)>>,
                     !.inc = CountError2,
                     !.next = IF stop_on_error THEN "break" ELSE "crashed"])
       \/ /\ res = "raises"
          /\ Step([closed EXCEPT
                     !.evs = <<LogEvent(idx, "ERROR", "FILL", FILL_EXCEPTION_NOTE)>>,
                     !.inc = CountError,
                     !.front = IF stop_on_error \/ RefocusRaises(pgs)
                                 THEN FrontAfterClose(pages, front, new_page)
                                 ELSE ListingPage,
                     !.next = IF stop_on_error THEN "break"
                              ELSE IF RefocusRaises(pgs) THEN "crashed"
                              ELSE "continue"])

----------------------------------------------------------------------------
\* process_autofill: submit_form, the SUBMIT event and the end of the row.

SubmitCodes == {"OK", "NO_SUBMIT_BUTTON", "ERROR_FILL", "NO_SUCCESS_SIGNAL", "NO_CONFIRM"}

\* On a closed page no submit control can be clicked and none is visible.
SubmitResults(pgs, p) == IF IsClosed(pgs, p) THEN {"NO_SUBMIT_BUTTON"}
                         ELSE SubmitCodes \cup {"raises"}

SUBMIT_EXCEPTION_NOTE == <<"EXCEPTION">> \o describe_exception(PlaywrightError)

Submit ==
  /\ pc = "submit"
  /\ \E res \in SubmitResults(pages, new_page) :
       LET pgs == ClosePage(pages, new_page)
           closed == [Same EXCEPT
             !.ops = {"submit", "close_form"},
             !.pages = pgs,
             !.front = FrontAfterClose(pages, front, new_page)]
       IN
       \/ /\ res = "OK"
          /\ Step([Same EXCEPT
                     !.evs = <<LogEvent(idx, "OK", "SUBMIT", <<"Submit final sukses">>)>>,
                     !.ops = {"submit"},
                     !.done = TRUE,
                     !.next = "rowdone"])
       \/ /\ res \in SubmitCodes \ {"OK"}
          /\ ~RefocusRaises(pgs)
          /\ Step([closed EXCEPT
                     !.evs = <<LogEvent(idx, "ERROR", "SUBMIT", <<res>>)>>,
                     !.inc = CountError,
                     !.front = ListingPage,
                     !.next = AfterError(stop_on_error)])
       \/ /\ res \in SubmitCodes \ {"OK"}
          /\ RefocusRaises(pgs)
          \* page.bring_to_front() raises inside the try: the except of the
          \* submit logs the row again, and without stop_on_error refocuses again
          /\ Step([closed EXCEPT
                     !.evs = <<LogEvent(idx, "ERROR", "SUBMIT", <<res>>),
                               LogEvent(idx, "ERROR", "SUBMIT", SUBMIT_EXCEPTION_NOTE)>>,
                     !.inc = CountError2,
                     !.next = IF stop_on_error THEN "break" ELSE "crashed"])
       \/ /\ res = "raises"
          /\ Step([closed EXCEPT
                     !.evs = <<LogEvent(idx, "ERROR", "SUBMIT", SUBMIT_EXCEPTION_NOTE)>>,
                     !.inc = CountError,
                     !.front = IF stop_on_error \/ RefocusRaises(pgs)
                                 THEN FrontAfterClose(pages, front, new_page)
                                 ELSE ListingPage,
                     !.next = IF stop_on_error THEN "break"
                              ELSE IF RefocusRaises(pgs) THEN "crashed"
                              ELSE "continue"])

\* Lines 547-567: close the form page, refocus the listing, log ROW_DONE.
RowDone ==
  /\ pc = "rowdone"
  /\ LET pgs == ClosePage(pages, new_page)
         closed == [Same EXCEPT
           !.ops = {"close_form"},
           !.pages = pgs,
           !.front = FrontAfterClose(pages, front, new_page)]
     IN  IF RefocusRaises(pgs)
           THEN Step([closed EXCEPT !.next = "crashed"])
           ELSE Step([closed EXCEPT
                  !.evs = <<LogEvent(idx, "OK", "ROW_DONE", <<"Baris selesai diproses">>)>>,
                  !.inc = CountOk,
                  !.front = ListingPage,
                  !.next = "continue"])

----------------------------------------------------------------------------
\* process_cancel: the wait for the form tab, then _do_cancel and the CANCEL event.

CancelOpenEnvs(pend) == IF pend = "tab" THEN {"event", "pause"} ELSE {"timeout"}

CancelOpen ==
  /\ pc = "open"
  /\ command = "cancel"
  /\ \E env \in CancelOpenEnvs(pending) :
       IF env = "event"
         THEN Step([Same EXCEPT
                !.ops = {"open"},
                !.pages = pages \cup {"L"}, !.front = "L", !.new_page = "L",
                !.pending = "none", !.how = "a",
                !.next = "cancel"])
         \* the tab that opened during the pause raised its event before
         \* wait_for_event listened: the wait times out
         ELSE Step([Same EXCEPT
                !.evs = <<LogEvent(idx, "ERROR", "OPEN_TAB", NO_TAB_DETAIL)>>,
                !.inc = CountError,
                !.ops = {"open"},
                !.pages = IF env = "pause" THEN pages \cup {"L"} ELSE pages,
                !.front = IF env = "pause" THEN "L" ELSE front,
                !.pending = "none",
                !.next = AfterError(stop_on_error)])

CancelResults == {"OK", "ERROR: Gagal klik Cancel Submit",
                  "ERROR: Gagal klik 'Ya, batalkan!'",
                  "ERROR: Gagal menutup dialog success"}

CANCEL_POLLS == 20

Min(a, b) == IF a <= b THEN a ELSE b

\* The form tab during one call of _do_cancel.  click / confirm: whether the
\* step goes through; ack_at: the first poll at which the OK button of the
\* success dialog is there (one above the budget: never); ack: what the click
\* on it, or the poll itself, does.
CancelEnvs ==
  {[fn |-> "_do_cancel", click |-> FALSE, confirm |-> FALSE,
    ack_at |-> CANCEL_POLLS + 1, ack |-> "none"]}
  \cup {[fn |-> "_do_cancel", click |-> TRUE, confirm |-> FALSE,
         ack_at |-> CANCEL_POLLS + 1, ack |-> "none"]}
  \cup {[fn |-> "_do_cancel", click |-> TRUE, confirm |-> TRUE,
         ack_at |-> CANCEL_POLLS + 1, ack |-> "none"]}
  \cup {[fn |-> "_do_cancel", click |-> TRUE, confirm |-> TRUE,
         ack_at |-> n, ack |-> k] : n \in 1..CANCEL_POLLS, k \in {"clicked", "raises"}}

do_cancel(e) ==
  IF ~e.click
    THEN [fn |-> "_do_cancel", raw |-> "ERROR: Gagal klik Cancel Submit",
          steps |-> <<"click">>, polls |-> 0]
  ELSE IF ~e.confirm
    THEN [fn |-> "_do_cancel", raw |-> "ERROR: Gagal klik 'Ya, batalkan!'",
          steps |-> <<"click", "confirm">>, polls |-> 0]
  ELSE [fn |-> "_do_cancel",
        raw |-> IF e.ack = "raises" THEN "ERROR: Gagal menutup dialog success"
                ELSE "OK",
        steps |-> <<"click", "confirm", "ack">>,
        polls |-> Min(e.ack_at, CANCEL_POLLS)]

\* raw_result = await _do_cancel(new_page, config)
DoCancel ==
  /\ pc = "cancel"
  /\ \E e \in CancelEnvs :
       Step([Same EXCEPT !.ops = {"cancel"}, !.env = e, !.result = do_cancel(e),
                         !.next = "cancel_log"])

\* Faulty variant: the CANCEL event is always OK.
CancelLevel_AlwaysOk(raw_result) == "OK"

CancelLevel(raw_result) == IF raw_result = "OK" THEN "OK" ELSE "ERROR"

\* The form tab is closed, the listing brought to front, the outcome logged.
CancelRow ==
  /\ pc = "cancel_log"
  /\ LET raw_result == call_result.raw
     IN  Step([Same EXCEPT
               !.evs = <<LogEvent(idx, CancelLevel(raw_result), "CANCEL", <<raw_result>>)>>,
               !.inc = IF raw_result = "OK" THEN CountOk ELSE CountError,
               !.ops = {"close_form"},
               !.pages = ClosePage(pages, new_page),
               !.front = ListingPage,
               !.env = NoCall, !.result = NoCall,
               !.next = IF raw_result # "OK" /\ stop_on_error THEN "break" ELSE "continue"])

----------------------------------------------------------------------------
\* After the loop: logbook.save() writes the CSV unless no event was appended.

\* Faulty variant: the entry carries no skipped rows.
RunIndexEntry_NoSkips(ok, err, skip) ==
  [written |-> TRUE, ok_rows |-> ok, error_rows |-> err, skipped_rows |-> 0]

\* The entry update_run_index writes for the run.
RunIndexEntry(ok, err, skip) ==
  [written |-> TRUE, ok_rows |-> ok, error_rows |-> err, skipped_rows |-> skip]

Finish ==
  /\ pc = "finish"
  /\ pc' = "done"
  /\ log_csv' = IF command = "autofill" /\ events # <<>> THEN events ELSE log_csv
  /\ log_status' = IF command = "autofill" /\ events # <<>> THEN "ok" ELSE log_status
  /\ run_index' = RunIndexEntry(ok_rows, error_rows,
                                IF command = "autofill" THEN skipped_rows ELSE 0)
  /\ UNCHANGED <<options, idx, events, ok_rows, error_rows, skipped_rows, pages,
                 stray, front, new_page, pending, how_opened, ops, cnt, clicked,
                 start_display, end_display, run_no, completed, raised,
                 call_env, call_result, attention_flag>>

\* A later run of process_autofill with --resume over the same range:
\* resolve_resume_log_path finds the log the run before saved and
\* load_resume_entries reads it.  The file is read here and nowhere later, so
\* from here on log_csv stands for the file this run is going to save.
StartResumeRun ==
  /\ pc = "done"
  /\ command = "autofill"
  /\ run_no < MaxRuns
  /\ run_no' = run_no + 1
  /\ command' = "autofill"
  /\ resume' = TRUE
  /\ stop_on_error' \in BOOLEAN
  /\ dry_run' \in BOOLEAN
  /\ resume_entries' = load_resume_entries(LogFile(log_status, log_csv),
                                           start_display, end_display)
  /\ log_csv' = <<>>
  /\ log_status' = "missing"
  /\ run_index' = NoIndexEntry
  /\ pc' = (IF NoRows(end_display) THEN "finish" ELSE "row")
  /\ idx' = (IF NoRows(end_display) THEN 0 ELSE start_display)
  /\ events' = <<>>
  /\ ok_rows' = 0 /\ error_rows' = 0 /\ skipped_rows' = 0
  /\ pages' = {ListingPage}
  /\ stray' = 0
  /\ front' = ListingPage
  /\ new_page' = "none"
  /\ pending' = "none"
  /\ how_opened' = "none"
  /\ ops' = NoOps
  /\ cnt' = NoCounts
  /\ clicked' = NoClicks
  /\ raised' = ""
  /\ UNCHANGED <<start_display, end_display, completed, call_env, call_result,
                 attention_flag>>

Next ==
  \/ ClickEdit
  \/ ConfirmEdit
  \/ OpenForm
  \/ FinalCheck
  \/ LockCheck
  \/ Fill
  \/ Submit
  \/ RowDone
  \/ CancelOpen
  \/ DoCancel
  \/ CancelRow
  \/ Finish

\* One run of process_autofill or process_cancel without --resume.
Spec == Init /\ [][Next]_vars

NextResume ==
  \/ ResumeSkip
  \/ ClickEdit
  \/ ConfirmEdit
  \/ OpenForm
  \/ FinalCheck
  \/ LockCheck
  \/ Fill
  \/ Submit
  \/ RowDone
  \/ Finish
  \/ StartResumeRun

\* Runs of process_autofill chained through the saved log.
SpecResume == InitResume /\ [][NextResume]_vars

\* ---- a resumed run next to the log it resumes from ----

ResumeLogRuns == 2
ResumeLogRows == 2

\* A later run of process_autofill with --resume over the same range, as
\* StartResumeRun, with the log of the run before kept: until this run saves
\* its own log, log_csv is the file resolve_resume_log_path found.
StartResumeRunFromLog ==
  /\ pc = "done"
  /\ command = "autofill"
  /\ run_no < ResumeLogRuns
  /\ run_no' = run_no + 1
  /\ command' = "autofill"
  /\ resume' = TRUE
  /\ stop_on_error' \in BOOLEAN
  /\ dry_run' \in BOOLEAN
  /\ resume_entries' = load_resume_entries(LogFile(log_status, log_csv),
                                           start_display, end_display)
  /\ run_index' = NoIndexEntry
  /\ pc' = (IF NoRows(end_display) THEN "finish" ELSE "row")
  /\ idx' = (IF NoRows(end_display) THEN 0 ELSE start_display)
  /\ events' = <<>>
  /\ ok_rows' = 0 /\ error_rows' = 0 /\ skipped_rows' = 0
  /\ pages' = {ListingPage}
  /\ stray' = 0
  /\ front' = ListingPage
  /\ new_page' = "none"
  /\ pending' = "none"
  /\ how_opened' = "none"
  /\ ops' = NoOps
  /\ cnt' = NoCounts
  /\ clicked' = NoClicks
  /\ raised' = ""
  /\ UNCHANGED <<log_csv, log_status, start_display, end_display, completed,
                 call_env, call_result, attention_flag>>

InitResumeLog ==
  /\ command = "autofill"
  /\ stop_on_error \in BOOLEAN
  /\ dry_run \in BOOLEAN
  /\ resume = FALSE
  /\ FirstRun
  /\ end_display <= ResumeLogRows

NextResumeLog ==
  \/ ResumeSkip
  \/ ClickEdit
  \/ ConfirmEdit
  \/ OpenForm
  \/ FinalCheck
  \/ LockCheck
  \/ Fill
  \/ Submit
  \/ RowDone
  \/ Finish
  \/ StartResumeRunFromLog

SpecResumeLog == InitResumeLog /\ [][NextResumeLog]_vars

----------------------------------------------------------------------------
\* load_resume_entries on its own: a log file of up to MaxLogRows rows, in
\* any state, and a range of display indices.

MaxLogRows == 3
LogIndices == {-1, 1, 2, 5}
LogLevels == {"OK", "WARN", "ERROR"}
LogRow == [row_index : LogIndices, level : LogLevels, stage : {"STAGE"}, note : {<<>>}]
LogRows == UNION {[1..n -> LogRow] : n \in 0..MaxLogRows}

InitLoad ==
  /\ command = "autofill"
  /\ stop_on_error = FALSE
  /\ dry_run = FALSE
  /\ resume = TRUE
  /\ log_status \in {"missing", "unreadable", "ok"}
  /\ log_csv \in (IF log_status = "missing" THEN {<<>>} ELSE LogRows)
  /\ start_display \in Rows
  /\ end_display \in start_display..NumRows
  /\ resume_entries = <<>>
  /\ pc = "load"
  /\ idx = start_display
  /\ events = <<>>
  /\ ok_rows = 0 /\ error_rows = 0 /\ skipped_rows = 0
  /\ pages = {ListingPage}
  /\ stray = 0
  /\ front = ListingPage
  /\ new_page = "none"
  /\ pending = "none"
  /\ how_opened = "none"
  /\ ops = NoOps
  /\ cnt = NoCounts
  /\ clicked = NoClicks
  /\ run_no = 1
  /\ completed = {}
  /\ raised = ""
  /\ call_env = NoCall
  /\ call_result = NoCall
  /\ run_index = NoIndexEntry
  /\ attention_flag = NoFlag

\* process_autofill with options.resume: the log is resolved and loaded.
LoadResume ==
  /\ pc = "load"
  /\ resume
  /\ resume_entries' = load_resume_entries(LogFile(log_status, log_csv),
                                           start_display, end_display)
  /\ pc' = "loaded"
  /\ UNCHANGED <<command, stop_on_error, dry_run, resume, idx, events, ok_rows,
                 error_rows, skipped_rows, pages, stray, front, new_page, pending,
                 how_opened, ops, cnt, clicked, log_csv, log_status,
                 start_display, end_display, run_no, completed, raised,
                 call_env, call_result, run_index, attention_flag>>

NextLoad == LoadResume

SpecLoad == InitLoad /\ [][NextLoad]_vars

----------------------------------------------------------------------------
\* submitter.py: submit_form on its own, against what the form page does.

SUBMIT_CLICK_ATTEMPTS == 3
CONFIRM_POLLS == 10
SUCCESS_POLLS == 20

\* with_retry(fn, attempts): fn is tried until it succeeds, at most `attempts`
\* times; ok_at is the first try at which fn would succeed.
with_retry(ok_at, attempts) ==
  [ok |-> ok_at <= attempts, tries |-> Min(ok_at, attempts)]

\* The environment of one call.  role_at / text_at: the first try at which the
\* click on the submit locator succeeds; confirm_at: the first poll at which
\* the 'Ya, Submit' button is visible and clicked; success_at: the first poll
\* at which a success signal is observed, and which one.  A value one above
\* the budget means never.
SubmitEnvDefault ==
  [fn |-> "submit_form", role_at |-> 1, text_at |-> SUBMIT_CLICK_ATTEMPTS + 1,
   cancel_visible |-> "no", pause |-> "ok", err_visible |-> FALSE,
   dismiss |-> "absent", kons |-> FALSE, confirm_at |-> CONFIRM_POLLS + 1,
   success_at |-> SUCCESS_POLLS + 1, signal |-> "none"]

\* The second locator is tried only when the first could not be clicked.
SubmitClicks ==
  {<<r, SUBMIT_CLICK_ATTEMPTS + 1>> : r \in 1..SUBMIT_CLICK_ATTEMPTS}
    \cup {<<SUBMIT_CLICK_ATTEMPTS + 1, t>> : t \in 1..SUBMIT_CLICK_ATTEMPTS}

SuccessSignals(at) == IF at > SUCCESS_POLLS THEN {"none"} ELSE {"ack", "toast", "gone"}

\* What is not observed in a call keeps its default value.
SubmitEnvs ==
  {[SubmitEnvDefault EXCEPT !.role_at = SUBMIT_CLICK_ATTEMPTS + 1,
                            !.cancel_visible = c] : c \in {"yes", "no", "raises"}}
  \cup {[SubmitEnvDefault EXCEPT !.role_at = ct[1], !.text_at = ct[2],
                                 !.pause = "raises"] : ct \in SubmitClicks}
  \cup {[SubmitEnvDefault EXCEPT !.role_at = ct[1], !.text_at = ct[2],
                                 !.err_visible = TRUE, !.dismiss = d] :
          ct \in SubmitClicks, d \in {"absent", "clicked"}}
  \cup UNION {
         {[SubmitEnvDefault EXCEPT !.role_at = ct[1], !.text_at = ct[2],
                                   !.err_visible = ev,
                                   !.dismiss = IF ev THEN "raises" ELSE "absent",
                                   !.kons = k, !.confirm_at = c,
                                   !.success_at = sa, !.signal = g] :
            ct \in SubmitClicks, ev \in BOOLEAN, k \in BOOLEAN,
            c \in 1..(CONFIRM_POLLS + 1), g \in SuccessSignals(sa)} :
         sa \in 1..(SUCCESS_POLLS + 1)}

\* Faulty variant: a visible cancel-submit control is not taken as success.
NoButtonCode_Never(cancel_visible) == "NO_SUBMIT_BUTTON"

\* No submit control could be clicked: cancel_btn.is_visible decides; its
\* exception reads as not visible.
NoButtonCode(cancel_visible) ==
  IF cancel_visible = "yes" THEN "OK" ELSE "NO_SUBMIT_BUTTON"

\* Faulty variant: a clicked confirmation is taken as success.
PollCode_AssumeSuccess(success_seen, clicked_confirm) ==
  IF success_seen \/ clicked_confirm THEN "OK" ELSE "NO_CONFIRM"

\* The result after the two polling loops.
PollCode(success_seen, clicked_confirm) ==
  IF success_seen THEN "OK"
  ELSE IF clicked_confirm THEN "NO_SUCCESS_SIGNAL"
  ELSE "NO_CONFIRM"

submit_form(e) ==
  LET role == with_retry(e.role_at, SUBMIT_CLICK_ATTEMPTS)
      text == IF role.ok THEN [ok |-> FALSE, tries |-> 0]
              ELSE with_retry(e.text_at, SUBMIT_CLICK_ATTEMPTS)
      base == [fn |-> "submit_form", code |-> "", raised |-> FALSE,
               role_tries |-> role.tries, text_tries |-> text.tries,
               dismissed |-> FALSE, ignored |-> FALSE,
               confirm_polls |-> 0, clicked_confirm |-> FALSE,
               success_polls |-> 0, success_seen |-> FALSE]
  IN  IF ~(role.ok \/ text.ok)
        THEN [base EXCEPT !.code = NoButtonCode(e.cancel_visible)]
      ELSE IF e.pause = "raises"
        \* page.wait_for_timeout(pause_after_submit_ms) is not guarded
        THEN [base EXCEPT !.code = "raises", !.raised = TRUE]
      ELSE IF e.err_visible /\ e.dismiss # "raises"
        THEN [base EXCEPT !.code = "ERROR_FILL", !.dismissed = e.dismiss = "clicked"]
      \* an exception while dismissing is swallowed with the timeout of the
      \* wait for the message, and the call goes on to the dialogs
      ELSE LET clicked_confirm == e.confirm_at <= CONFIRM_POLLS
               success_seen == e.success_at <= SUCCESS_POLLS
           IN  [base EXCEPT
                  !.ignored = e.kons,
                  !.confirm_polls = Min(e.confirm_at, CONFIRM_POLLS),
                  !.clicked_confirm = clicked_confirm,
                  !.success_polls = Min(e.success_at, SUCCESS_POLLS),
                  !.success_seen = success_seen,
                  !.code = PollCode(success_seen, clicked_confirm)]

\* Everything but the call being followed, as after construction.
Idle ==
  /\ command = "autofill"
  /\ stop_on_error = FALSE
  /\ dry_run = FALSE
  /\ resume = FALSE
  /\ log_status = "missing"
  /\ log_csv = <<>>
  /\ start_display = 1
  /\ end_display = NumRows
  /\ resume_entries = <<>>
  /\ idx = start_display
  /\ events = <<>>
  /\ ok_rows = 0 /\ error_rows = 0 /\ skipped_rows = 0
  /\ pages = {ListingPage, "L"}
  /\ stray = 0
  /\ front = "L"
  /\ new_page = "L"
  /\ pending = "none"
  /\ how_opened = "a"
  /\ ops = NoOps
  /\ cnt = NoCounts
  /\ clicked = NoClicks
  /\ run_no = 1
  /\ completed = {}
  /\ raised = ""
  /\ run_index = NoIndexEntry

InitSubmit ==
  /\ Idle
  /\ attention_flag = NoFlag
  /\ pc = "call"
  /\ call_env \in SubmitEnvs
  /\ call_result = NoCall

SubmitFormCall ==
  /\ pc = "call"
  /\ call_env.fn = "submit_form"
  /\ call_result' = submit_form(call_env)
  /\ pc' = "returned"
  /\ UNCHANGED <<options, idx, events, ok_rows, error_rows, skipped_rows, pages,
                 stray, front, new_page, pending, how_opened, ops, cnt, clicked,
                 log_csv, log_status, start_display, end_display, run_no,
                 completed, raised, call_env, run_index, attention_flag>>

NextSubmit == SubmitFormCall

SpecSubmit == InitSubmit /\ [][NextSubmit]_vars

----------------------------------------------------------------------------
\* form_filler.py: fill_form on its own, one field after the other.

\* Excel cells: empty, whitespace only, or a value.
Cells == {"", " ", "v"}
StatusCells == {"", " ", "Aktif", "duplikat", "9"}

\* re.sub(r"\s+", " ", value).strip()
norm_space(value) == IF value = " " THEN "" ELSE value

nonempty(value) == norm_space(value) # ""

STATUS_NORMALIZATION ==
  ("aktif nonrespons" :> "Aktif Nonrespon")
    @@ ("belum berproduksi" :> "Belum Beroperasi/Berproduksi")

STATUS_NUMERIC_MAP ==
  ("1" :> "Aktif") @@ ("2" :> "Tutup Sementara")
    @@ ("3" :> "Belum Beroperasi/Berproduksi") @@ ("4" :> "Tutup")
    @@ ("5" :> "Alih Usaha") @@ ("6" :> "Tidak Ditemukan")
    @@ ("7" :> "Aktif Pindah") @@ ("8" :> "Aktif Nonrespon")
    @@ ("9" :> "Duplikat") @@ ("10" :> "Salah Kode Wilayah")
    @@ ("11" :> "Salah Kode Wilayah")

\* str.isdigit() on the strings of the model.
IsDigit(st) ==
  st \in {"0", "1", "2", "3", "4", "5", "6", "7", "8", "9", "10", "11", "12",
          "01"}

\* str.lower() on the strings of the model.
Lower(st) ==
  CASE st = "Duplikat" -> "duplikat"
    [] st = "Aktif" -> "aktif"
    [] st = "Custom" -> "custom"
    [] st = "Belum Berproduksi" -> "belum berproduksi"
    [] st = "AKTIF NONRESPONS" -> "aktif nonrespons"
    [] OTHER -> st

normalize_status_CaseSensitive(status) ==
  IF status = "" THEN ""
  ELSE IF IsDigit(status) /\ status \in DOMAIN STATUS_NUMERIC_MAP
    THEN STATUS_NUMERIC_MAP[status]
  ELSE IF status \in DOMAIN STATUS_NORMALIZATION
    THEN STATUS_NORMALIZATION[status]
  ELSE status

\* _normalize_status: digit strings go through STATUS_NUMERIC_MAP, the others
\* and the digit strings without an entry through STATUS_NORMALIZATION.
normalize_status(status) ==
  IF status = "" THEN ""
  ELSE IF IsDigit(status) /\ status \in DOMAIN STATUS_NUMERIC_MAP
    THEN STATUS_NUMERIC_MAP[status]
  ELSE IF Lower(status) \in DOMAIN STATUS_NORMALIZATION
    THEN STATUS_NORMALIZATION[Lower(status)]
  ELSE status

\* The fields in the order fill_form handles them; kodepos stands for the
\* payload keys with a plain selector, kdprov for those with a select2 one.
FillSteps ==
  <<"status", "phone", "whatsapp", "website", "email", "latitude", "longitude",
    "sumber_profiling", "catatan_profiling", "kodepos", "keberadaan_usaha",
    "idsbr_master", "kdprov">>

\* What the form tab does during one step.  write: whether the writes to the
\* field's controls go through; web_value, cb: the e-mail input and its
\* checkbox; selector: whether the profile has a selector for the key;
\* accept: the check-then-accept confirmation; pause: page.wait_for_timeout.
\* What a field's step does not look at keeps one value.
FillPages(field) ==
  [write : {"ok", "fails"},
   web_value : IF field = "email" THEN {"", "x"} ELSE {""},
   cb : IF field = "email" THEN {"absent", "checked", "unchecked"} ELSE {"absent"},
   selector : IF field \in {"kodepos", "idsbr_master"} THEN BOOLEAN ELSE {TRUE},
   accept : IF field = "idsbr_master" THEN {"ok", "fails"} ELSE {"ok"},
   pause : {"ok", "raises"}]

\* The effect of one step: what it adds to the summary, whether it wrote to a
\* control of the field (wrote), whether a write failed (failed), whether the
\* confirmation ran (confirm), whether slow_pause is called (pause).
NoEffect ==
  [updated |-> 0, skipped |-> 0, errors |-> <<>>, wrote |-> FALSE,
   failed |-> FALSE, confirm |-> "none", pause |-> FALSE]

apply_status(status, skip_status, p) ==
  IF skip_status THEN [NoEffect EXCEPT !.skipped = 1]
  ELSE IF status = "" THEN [NoEffect EXCEPT !.updated = 1]
  ELSE [NoEffect EXCEPT !.updated = 1, !.wrote = TRUE,
                        !.failed = p.write = "fails", !.pause = TRUE]

\* _fill_phone, _fill_whatsapp, _fill_website, _fill_coordinates: a failure is
\* printed and nothing else.
fill_input(value, p) ==
  IF nonempty(value)
    THEN [NoEffect EXCEPT !.wrote = TRUE, !.failed = p.write = "fails"]
    ELSE NoEffect

fill_email(email, p) ==
  IF nonempty(email)
    THEN [NoEffect EXCEPT !.wrote = TRUE, !.failed = p.write = "fails"]
  ELSE IF p.web_value # "" THEN NoEffect
  \* no e-mail in Excel and none on the page: a checked checkbox is unchecked
  ELSE IF p.cb = "checked"
    THEN [NoEffect EXCEPT !.wrote = TRUE, !.failed = p.write = "fails"]
  ELSE NoEffect

fill_additional_field(name, value, p) ==
  IF nonempty(value)
    THEN IF p.write = "ok"
           THEN [NoEffect EXCEPT !.updated = 1, !.wrote = TRUE, !.pause = TRUE]
           ELSE [NoEffect EXCEPT !.errors = <<name>>, !.wrote = TRUE,
                                 !.failed = TRUE, !.pause = TRUE]
    ELSE NoEffect

\* update_field / update_select2_field: (success, state)
update_field(value, p) ==
  IF ~nonempty(value) THEN <<FALSE, "skip">>
  ELSE IF p.write = "ok" THEN <<TRUE, "updated">>
  ELSE <<FALSE, "error">>

fill_payload_field(key, value, has_selector, p) ==
  IF ~has_selector THEN [NoEffect EXCEPT !.skipped = 1]
  ELSE LET r == update_field(value, p)
       IN  IF r[2] = "skip" THEN [NoEffect EXCEPT !.skipped = 1, !.pause = TRUE]
           ELSE IF r[1]
             THEN [NoEffect EXCEPT !.updated = 1, !.wrote = TRUE, !.pause = TRUE]
             ELSE [NoEffect EXCEPT !.errors = <<key>>, !.wrote = TRUE,
                                   !.failed = TRUE, !.pause = TRUE]

IDSBR_EMPTY_NOTE == "Status Duplikat tetapi kolom idsbr_master kosong; wajib diisi sebelum submit."
IDSBR_SELECTOR_NOTE == "idsbr_master: selector tidak dikonfigurasi."
IDSBR_FILL_NOTE == "idsbr_master: gagal mengisi field."
IDSBR_CONFIRM_NOTE == "Konfirmasi IDSBR gagal"

\* Faulty variant: no status counts as Duplikat.
StatusDuplikat_Never(status) == FALSE

StatusDuplikat(status) == Lower(status) = "duplikat"

handle_idsbr_master(cell, status, p, slow_mode) ==
  LET idsbr_master == norm_space(cell)
      status_duplikat == StatusDuplikat(status)
  IN  IF idsbr_master = ""
        THEN IF status_duplikat
               THEN [NoEffect EXCEPT !.errors = <<IDSBR_EMPTY_NOTE>>]
               ELSE [NoEffect EXCEPT !.skipped = 1]
      ELSE IF ~p.selector
        THEN [NoEffect EXCEPT !.errors = <<IDSBR_SELECTOR_NOTE>>]
      ELSE IF ~update_field(idsbr_master, p)[1]
        THEN [NoEffect EXCEPT !.errors = <<IDSBR_FILL_NOTE>>, !.wrote = TRUE,
                              !.failed = TRUE]
      \* slow_pause after the fill: when it raises, nothing below is run
      ELSE IF ~status_duplikat \/ (slow_mode /\ p.pause = "raises")
        THEN [NoEffect EXCEPT !.updated = 1, !.wrote = TRUE, !.pause = TRUE]
      ELSE IF p.accept = "ok"
        THEN [NoEffect EXCEPT !.updated = 2, !.wrote = TRUE, !.confirm = "ok",
                              !.pause = TRUE]
        ELSE [NoEffect EXCEPT !.updated = 1, !.errors = <<IDSBR_CONFIRM_NOTE>>,
                              !.wrote = TRUE, !.confirm = "failed", !.pause = TRUE]

\* The step of fill_form on one field.
fill_field(field, cell, e, p) ==
  IF field = "status"
    THEN apply_status(normalize_status(norm_space(e.status_cell)), e.skip_status, p)
  ELSE IF field \in {"phone", "whatsapp", "website", "latitude", "longitude"}
    THEN fill_input(norm_space(cell), p)
  ELSE IF field = "email" THEN fill_email(norm_space(cell), p)
  ELSE IF field \in {"sumber_profiling", "catatan_profiling"}
    THEN fill_additional_field(field, norm_space(cell), p)
  ELSE IF field = "keberadaan_usaha" THEN [NoEffect EXCEPT !.skipped = 1]
  ELSE IF field = "idsbr_master"
    THEN handle_idsbr_master(cell, normalize_status(norm_space(e.status_cell)),
                             p, e.slow_mode)
  ELSE fill_payload_field(field, norm_space(cell), field = "kdprov" \/ p.selector, p)

\* level of the row's FILL event
FillLevel(errors) == IF errors # <<>> THEN "ERROR" ELSE "OK"

InitFill ==
  /\ Idle
  /\ attention_flag = NoFlag
  /\ pc = "call"
  /\ call_env \in [fn : {"fill_form"}, status_cell : StatusCells,
                    skip_status : BOOLEAN, slow_mode : BOOLEAN]
  /\ call_result = [fn |-> "fill_form", pos |-> 1, updated |-> 0, skipped |-> 0,
                    errors |-> <<>>, raised |-> FALSE,
                    last |-> [field |-> "none", cell |-> "", page |-> NoCall,
                              out |-> NoEffect]]

\* fill_form handles its next field; the cell of the status is the one the
\* row context was built from.
FillStep ==
  /\ pc = "call"
  /\ call_env.fn = "fill_form"
  /\ call_result.pos <= Len(FillSteps)
  /\ \E c \in Cells, p \in FillPages(FillSteps[call_result.pos]) :
       LET field == FillSteps[call_result.pos]
           cell == IF field = "status" THEN call_env.status_cell ELSE c
           out == fill_field(field, cell, call_env, p)
           raises == out.pause /\ call_env.slow_mode /\ p.pause = "raises"
       IN  /\ call_result' =
                [fn |-> "fill_form",
                 pos |-> call_result.pos + 1,
                 updated |-> call_result.updated + out.updated,
                 skipped |-> call_result.skipped + out.skipped,
                 errors |-> call_result.errors \o out.errors,
                 raised |-> raises,
                 last |-> [field |-> field, cell |-> cell, page |-> p,
                           out |-> out]]
           /\ pc' = IF raises \/ call_result.pos = Len(FillSteps)
                      THEN "returned" ELSE "call"
  /\ UNCHANGED <<options, idx, events, ok_rows, error_rows, skipped_rows, pages,
                 stray, front, new_page, pending, how_opened, ops, cnt, clicked,
                 log_csv, log_status, start_display, end_display, run_no,
                 completed, raised, call_env, run_index, attention_flag>>

NextFill == FillStep

SpecFill == InitFill /\ [][NextFill]_vars

----------------------------------------------------------------------------
\* utils.py, logbook.py: the attention flag over one run of the Log Book.

MaxEvents == 4

\* clear_attention_flag: unlink(missing_ok=True); an exception is swallowed.
clear_attention_flag(flag, unlink) ==
  IF ~flag.configured THEN flag
  ELSE IF unlink = "ok" THEN [flag EXCEPT !.exists = FALSE]
  ELSE flag

\* signal_attention: mkdir and touch(exist_ok=True); an exception is swallowed.
signal_attention(flag, touch) ==
  IF ~flag.configured THEN flag
  ELSE IF touch = "ok" THEN [flag EXCEPT !.exists = TRUE]
  ELSE flag

\* Faulty variant: WARN events raise the flag as well.
NeedsAttention_Warn(level) == level \in {"ERROR", "WARN"}

\* LogBook.append: if event.level == "ERROR"
NeedsAttention(level) == level = "ERROR"

\* Before the run: the flag of an earlier run may still be there.
InitFlag ==
  /\ Idle
  /\ pc = "start"
  /\ \E c \in BOOLEAN, x \in BOOLEAN :
       /\ c \/ ~x
       /\ attention_flag = [configured |-> c, exists |-> x]
  /\ call_env = [fn |-> "attention_flag"]
  /\ call_result = [fn |-> "attention_flag", stale |-> FALSE, touched |-> FALSE]

\* process_autofill / process_cancel: clear_attention_flag at the start.
\* stale: a flag that was there and could not be removed.
ClearFlag ==
  /\ pc = "start"
  /\ call_env.fn = "attention_flag"
  /\ \E unlink \in {"ok", "raises"} :
       /\ attention_flag' = clear_attention_flag(attention_flag, unlink)
       /\ call_result' = [call_result EXCEPT
                           !.stale = attention_flag.exists /\ unlink = "raises"]
  /\ pc' = "append"
  /\ UNCHANGED <<options, idx, events, ok_rows, error_rows, skipped_rows, pages,
                 stray, front, new_page, pending, how_opened, ops, cnt, clicked,
                 log_csv, log_status, start_display, end_display, run_no,
                 completed, raised, call_env, run_index>>

\* LogBook.append(event).  touched: some touch of the flag went through.
AppendEvent ==
  /\ pc = "append"
  /\ call_env.fn = "attention_flag"
  /\ Len(events) < MaxEvents
  /\ \E r \in Rows, level \in {"OK", "WARN", "ERROR"}, touch \in {"ok", "raises"} :
       /\ \A k \in DOMAIN events : events[k].row_index <= r
       /\ events' = Append(events, LogEvent(r, level, "STAGE", <<>>))
       /\ attention_flag' = IF NeedsAttention(level)
                               THEN signal_attention(attention_flag, touch)
                               ELSE attention_flag
       /\ call_result' = [call_result EXCEPT
                           !.touched = @ \/ (attention_flag.configured
                                              /\ level = "ERROR" /\ touch = "ok")]
  /\ UNCHANGED <<options, pc, idx, ok_rows, error_rows, skipped_rows, pages,
                 stray, front, new_page, pending, how_opened, ops, cnt, clicked,
                 log_csv, log_status, start_display, end_display, run_no,
                 completed, raised, call_env, run_index>>

NextFlag == ClearFlag \/ AppendEvent

SpecFlag == InitFlag /\ [][NextFlag]_vars

----------------------------------------------------------------------------
\* logbook.py: update_run_index over the index file of successive runs.

MaxCalls == 3
RunIds == {"r1", "r2", "r3"}

\* An entry: its run_id and the rest of its columns.
IndexEntries == [run_id : RunIds, values : {"x", "y"}]

\* rows: the rows of index.csv before the call (none when the file is
\* missing); read: whether reading them goes through.  An exception while
\* reading leaves rows = [].
update_run_index(rows, entry, read) ==
  LET kept == IF read = "ok"
                THEN SelectSeq(rows, LAMBDA row : row.run_id # entry.run_id)
                ELSE <<>>
  IN  Append(kept, entry)

InitIndex ==
  /\ Idle
  /\ attention_flag = NoFlag
  /\ pc = "call"
  /\ call_env = [fn |-> "update_run_index", n |-> 0, before |-> <<>>,
                 entry |-> [run_id |-> "", values |-> ""], read |-> "ok"]
  /\ call_result = [fn |-> "update_run_index", rows |-> <<>>]

\* One more run writes its entry; the file read is the one the call before
\* left.
UpdateRunIndex ==
  /\ pc = "call"
  /\ call_env.fn = "update_run_index"
  /\ call_env.n < MaxCalls
  /\ \E entry \in IndexEntries, read \in {"ok", "raises"} :
       /\ (call_result.rows = <<>>) => read = "ok"
       /\ call_env' = [fn |-> "update_run_index", n |-> call_env.n + 1,
                       before |-> call_result.rows, entry |-> entry, read |-> read]
       /\ call_result' = [fn |-> "update_run_index",
                          rows |-> update_run_index(call_result.rows, entry, read)]
  /\ UNCHANGED <<options, pc, idx, events, ok_rows, error_rows, skipped_rows,
                 pages, stray, front, new_page, pending, how_opened, ops, cnt,
                 clicked, log_csv, log_status, start_display, end_display,
                 run_no, completed, raised, run_index, attention_flag>>

NextIndex == UpdateRunIndex

SpecIndex == InitIndex /\ [][NextIndex]_vars

----------------------------------------------------------------------------
\* utils.py: with_retry against a function whose calls succeed or fail.

MaxAttempts == 3

\* What one call of fn does: it returns a value or raises an exception.
RetryValues == {"v1", "v2"}
RetryExceptions == {"e1", "e2"}

\* Faulty variant: the first failure is raised at once.
with_retry_loop_NoRetry(outs, attempts, i, last_exc, calls) ==
  IF attempts = 0 THEN [calls |-> 0, result |-> "None", raised |-> ""]
  ELSE IF outs[1] \in RetryValues
    THEN [calls |-> 1, result |-> outs[1], raised |-> ""]
    ELSE [calls |-> 1, result |-> "", raised |-> outs[1]]

\* The loop "for i in range(attempts)" from iteration i on; outs[k] is what
\* the k-th call of fn does, last_exc the exception of the call before ("" for
\* None), calls the calls made so far.
RECURSIVE with_retry_loop(_, _, _, _, _)
with_retry_loop(outs, attempts, i, last_exc, calls) ==
  IF i >= attempts
    THEN IF last_exc # ""
           THEN [calls |-> calls, result |-> "", raised |-> last_exc]
           ELSE [calls |-> calls, result |-> "None", raised |-> ""]
  ELSE IF outs[i + 1] \in RetryValues
    THEN [calls |-> calls + 1, result |-> outs[i + 1], raised |-> ""]
  ELSE IF i = attempts - 1
    \* break, then "if last_exc: raise last_exc"
    THEN [calls |-> calls + 1, result |-> "", raised |-> outs[i + 1]]
  ELSE with_retry_loop(outs, attempts, i + 1, outs[i + 1], calls + 1)

InitRetry ==
  /\ Idle
  /\ attention_flag = NoFlag
  /\ pc = "call"
  /\ call_env \in [fn : {"with_retry"}, attempts : 0..MaxAttempts,
                    outs : [1..MaxAttempts -> RetryValues \cup RetryExceptions]]
  /\ call_result = NoCall

WithRetryCall ==
  /\ pc = "call"
  /\ call_env.fn = "with_retry"
  /\ call_result' = [fn |-> "with_retry",
                     out |-> with_retry_loop(call_env.outs, call_env.attempts, 0, "", 0)]
  /\ pc' = "returned"
  /\ UNCHANGED <<options, idx, events, ok_rows, error_rows, skipped_rows, pages,
                 stray, front, new_page, pending, how_opened, ops, cnt, clicked,
                 log_csv, log_status, start_display, end_display, run_no,
                 completed, raised, call_env, run_index, attention_flag>>

NextRetry == WithRetryCall

SpecRetry == InitRetry /\ [][NextRetry]_vars

\* ---- load_rows: column validation and the row range ----

SheetRows == 3

\* The column names of a sheet after load_dataframe has cleaned them. kodepos
\* stands for the payload keys that are no alias of a required column.
ColumnNames ==
  {"status", "keberadaan_usaha", "email", "sumber", "sumber_profiling",
   "catatan", "catatan_profiling", "idsbr", "idsbr_master", "nama",
   "nama_usaha", "nama_usaha_pembetulan", "nama_komersial_usaha", "kodepos"}

REQUIRED_COLUMNS_AUTOFILL == <<"status", "email", "sumber", "catatan">>

COLUMN_ALIASES ==
  [status |-> <<"status", "keberadaan_usaha">>,
   email |-> <<"email">>,
   sumber |-> <<"sumber", "sumber_profiling">>,
   catatan |-> <<"catatan", "catatan_profiling">>,
   idsbr |-> <<"idsbr", "idsbr_master">>,
   nama |-> <<"nama", "nama_usaha", "nama_usaha_pembetulan",
              "nama_komersial_usaha">>]

PROFILE_FIELD_KEYS ==
  <<"nama_usaha_pembetulan", "nama_komersial_usaha", "kodepos",
    "keberadaan_usaha", "idsbr_master", "sumber_profiling",
    "catatan_profiling">>

\* MATCH_BY_REQUIRED_COLUMNS.get(match_by, ())
MATCH_BY_REQUIRED_COLUMNS(match_by) ==
  CASE match_by = "idsbr" -> <<"idsbr", "idsbr_master">>
    [] match_by = "name" -> <<"nama", "nama_usaha", "nama_usaha_pembetulan">>
    [] OTHER -> <<>>

\* aliases.get(name, default)
AliasesGet(aliases, name, default) ==
  IF name \in DOMAIN aliases THEN aliases[name] ELSE default

has_column(columns, name, aliases) ==
  \/ name \in columns
  \/ LET cands == AliasesGet(aliases, name, <<>>)
     IN \E k \in DOMAIN cands : cands[k] \in columns

NoColumnError == [raised |-> FALSE, text |-> "", names |-> <<>>]

ensure_required_with_aliases(columns, required, aliases) ==
  LET missing == SelectSeq(required,
                           LAMBDA base : ~has_column(columns, base, aliases))
  IN IF missing # <<>>
     THEN [raised |-> TRUE, text |-> "Kolom wajib belum ada di Excel",
           names |-> missing]
     ELSE NoColumnError

ensure_required_columns(columns, required) ==
  LET missing == SelectSeq(required, LAMBDA col : col \notin columns)
  IN IF missing # <<>>
     THEN [raised |-> TRUE, text |-> "Kolom wajib belum ada di Excel",
           names |-> missing]
     ELSE NoColumnError

ensure_profile_fields(columns) ==
  ensure_required_columns(columns, PROFILE_FIELD_KEYS)

validate_columns(match_by, columns) ==
  LET required_columns == REQUIRED_COLUMNS_AUTOFILL
                            \o MATCH_BY_REQUIRED_COLUMNS(match_by)
      req == ensure_required_with_aliases(columns, required_columns,
                                          COLUMN_ALIASES)
  IN IF req.raised THEN req ELSE ensure_profile_fields(columns)

\* An optional integer argument: <<>> is None, <<k>> is k.
Optional(S) == {<<>>} \cup {<<k>> : k \in S}

Max(a, b) == IF a >= b THEN a ELSE b

slice_rows_NoClamp(n, start, end) ==
  [start_idx |-> IF start = <<>> THEN 0 ELSE Max(start[1] - 1, 0),
   end_idx |-> IF end = <<>> THEN n ELSE end[1]]

slice_rows(n, start, end) ==
  [start_idx |-> IF start = <<>> THEN 0 ELSE Max(start[1] - 1, 0),
   end_idx |-> IF end = <<>> THEN n ELSE Min(end[1], n)]

\* range(start_idx, end_idx) as a sequence of RowContext indices
context_rows(start_idx, end_idx) ==
  IF end_idx <= start_idx THEN <<>>
  ELSE [k \in 1..(end_idx - start_idx) |->
          [table_index |-> start_idx + k - 1, display_index |-> start_idx + k]]

load_rows(e) ==
  LET checked == validate_columns(e.match_by, e.columns)
      missing_match ==
        SelectSeq(MATCH_BY_REQUIRED_COLUMNS(e.match_by),
                  LAMBDA col :
                    LET cands == AliasesGet(COLUMN_ALIASES, col, <<col>>)
                    IN ~\E k \in DOMAIN cands : cands[k] \in e.columns)
      sl == slice_rows(e.n, e.start_row, e.end_row)
  IN IF checked.raised
     THEN [raised |-> TRUE,
           text |-> IF missing_match # <<>>
                    THEN "Kolom Excel untuk match-by wajib ada"
                    ELSE checked.text,
           names |-> IF missing_match # <<>> THEN missing_match
                     ELSE checked.names,
           contexts |-> <<>>, start |-> 0, end |-> 0]
     ELSE [raised |-> FALSE, text |-> "", names |-> <<>>,
           contexts |-> context_rows(sl.start_idx, sl.end_idx),
           start |-> sl.start_idx + 1,
           end |-> IF sl.end_idx # 0 THEN sl.end_idx ELSE e.n]

MatchStrategies == {"index", "idsbr", "name"}

\* A sheet with every column the validation asks for.
FullSheet == ColumnNames

InitColumns ==
  /\ Idle
  /\ attention_flag = NoFlag
  /\ pc = "call"
  /\ call_env \in [fn : {"load_rows"}, match_by : MatchStrategies,
                    columns : SUBSET ColumnNames, n : {SheetRows},
                    start_row : {<<>>}, end_row : {<<>>}]
  /\ call_result = NoCall

InitRange ==
  /\ Idle
  /\ attention_flag = NoFlag
  /\ pc = "call"
  /\ call_env \in [fn : {"load_rows"}, match_by : {"index"},
                    columns : {FullSheet}, n : 0..SheetRows,
                    start_row : Optional(-1..(SheetRows + 1)),
                    end_row : Optional(-1..(SheetRows + 1))]
  /\ call_result = NoCall

LoadRowsCall ==
  /\ pc = "call"
  /\ call_env.fn = "load_rows"
  /\ call_result' = [fn |-> "load_rows", out |-> load_rows(call_env)]
  /\ pc' = "returned"
  /\ UNCHANGED <<options, idx, events, ok_rows, error_rows, skipped_rows, pages,
                 stray, front, new_page, pending, how_opened, ops, cnt, clicked,
                 log_csv, log_status, start_display, end_display, run_no,
                 completed, raised, call_env, run_index, attention_flag>>

NextColumns == LoadRowsCall

SpecColumns == InitColumns /\ [][NextColumns]_vars

SpecRange == InitRange /\ [][NextColumns]_vars

\* ---- events logged after a screenshot attempt ----

\* page.screenshot inside take_screenshot: the capture is written, or raises
\* with a message, or raises with an empty message.
Captures == {"ok", "raises", "raises_empty"}

\* ScreenshotResult(path, reason); "" stands for None as well.
take_screenshot(capture) ==
  CASE capture = "ok" -> [path |-> "capture.png", reason |-> ""]
    [] capture = "raises" -> [path |-> "", reason |-> "Timeout"]
    [] OTHER -> [path |-> "", reason |-> ""]

\* A note is the sequence of the parts of its text.
note_with_reason(note, shot) ==
  IF shot.path # "" \/ shot.reason = "" THEN note
  ELSE note \o <<"screenshot-error", shot.reason>>

\* The places of process_autofill and process_cancel that take a screenshot
\* and log an event, by the label of the screenshot.
ShotLabels ==
  {"exception_click_edit", "gagal_click_edit", "no_new_tab", "locked",
   "fill_errors", "exception_fill_form", "submit_issue", "exception_submit",
   "cancel_issue"}

ShotStage(label) ==
  CASE label \in {"exception_click_edit", "gagal_click_edit"} -> "CLICK_EDIT"
    [] label = "no_new_tab" -> "OPEN_TAB"
    [] label = "locked" -> "ACCESS"
    [] label \in {"fill_errors", "exception_fill_form"} -> "FILL"
    [] label = "cancel_issue" -> "CANCEL"
    [] OTHER -> "SUBMIT"

ShotNote(label, shot) ==
  IF label = "fill_errors" THEN <<label>>
  ELSE note_with_reason(<<label>>, shot)

shot_event(r, label, capture) ==
  LET shot == take_screenshot(capture)
  IN [row_index |-> r,
      level |-> IF label = "locked" THEN "WARN" ELSE "ERROR",
      stage |-> ShotStage(label),
      note |-> ShotNote(label, shot),
      screenshot |-> shot.path]

InitShot ==
  /\ Idle
  /\ attention_flag = NoFlag
  /\ pc = "call"
  /\ call_env \in [fn : {"shot_event"}, r : Rows, label : ShotLabels,
                    capture : Captures]
  /\ call_result = NoCall

ShotEventCall ==
  /\ pc = "call"
  /\ call_env.fn = "shot_event"
  /\ call_result' = [fn |-> "shot_event",
                     event |-> shot_event(call_env.r, call_env.label,
                                          call_env.capture)]
  /\ pc' = "returned"
  /\ UNCHANGED <<options, idx, events, ok_rows, error_rows, skipped_rows, pages,
                 stray, front, new_page, pending, how_opened, ops, cnt, clicked,
                 log_csv, log_status, start_display, end_display, run_no,
                 completed, raised, call_env, run_index, attention_flag>>

NextShot == ShotEventCall

SpecShot == InitShot /\ [][NextShot]_vars

\* ---- value helpers of loader.py and utils.py ----

StatusStrings ==
  {"", " ", " 1", "0", "1", "2", "3", "4", "5", "6", "7", "8", "9", "10", "11",
   "12", "01", "Custom", "Aktif", "duplikat", "Duplikat", "belum berproduksi",
   "Belum Berproduksi", "aktif nonrespons", "AKTIF NONRESPONS"}

\* Python objects handed to norm_space: kind is the type, text is str(value).
Objects ==
  {[kind |-> "None", text |-> "None"],
   [kind |-> "float_nan", text |-> "nan"],
   [kind |-> "float", text |-> "1.5"],
   [kind |-> "NA", text |-> "<NA>"],
   [kind |-> "int", text |-> "7"]}
    \cup [kind : {"str"}, text : {"", " ", "v", "<NA>"}]

\* norm_space on any object: None and a float NaN give "", a str is
\* normalised, anything else goes through str(value) first.
norm_space_object(value) ==
  IF value.kind = "None" THEN ""
  ELSE IF value.kind = "float_nan" THEN ""
  ELSE IF value.kind = "str" THEN norm_space(value.text)
  ELSE norm_space(value.text)

nonempty_object(value) == norm_space_object(value) # ""

PHONE_COLUMN_CANDIDATES ==
  <<"nomor_telepon", "Nomor Telepon", "No Telepon", "No. Telepon", "Telepon",
    "Telepon/HP", "Phone">>

\* The columns and cells of the rows handed to _select_phone_value.
PhoneRowColumns == {"nomor_telepon", "Telepon", "Phone", "nomor_whatsapp"}
PhoneCells == {"", " ", "123", "456"}
PhoneRows == UNION {[cols -> PhoneCells] : cols \in SUBSET PhoneRowColumns}

\* The result is <<value>>, or <<>> for None.
select_phone_value(df_row) ==
  LET present == SelectSeq(PHONE_COLUMN_CANDIDATES,
                           LAMBDA column : column \in DOMAIN df_row)
      filled == SelectSeq(present,
                          LAMBDA column : norm_space(df_row[column]) # "")
  IN IF filled # <<>> THEN <<df_row[filled[1]]>>
     ELSE IF present # <<>> THEN <<df_row[present[1]]>>
     ELSE <<>>

InitValues ==
  /\ Idle
  /\ attention_flag = NoFlag
  /\ pc = "call"
  /\ call_env \in [fn : {"_normalize_status"}, status : StatusStrings]
                    \cup [fn : {"norm_space"}, value : Objects]
                    \cup [fn : {"_select_phone_value"}, df_row : PhoneRows]
  /\ call_result = NoCall

NormalizeStatusCall ==
  /\ pc = "call"
  /\ call_env.fn = "_normalize_status"
  /\ call_result' = [fn |-> "_normalize_status",
                     out |-> normalize_status(call_env.status)]
  /\ pc' = "returned"
  /\ UNCHANGED <<options, idx, events, ok_rows, error_rows, skipped_rows, pages,
                 stray, front, new_page, pending, how_opened, ops, cnt, clicked,
                 log_csv, log_status, start_display, end_display, run_no,
                 completed, raised, call_env, run_index, attention_flag>>

NormSpaceCall ==
  /\ pc = "call"
  /\ call_env.fn = "norm_space"
  /\ call_result' = [fn |-> "norm_space",
                     out |-> norm_space_object(call_env.value),
                     nonempty |-> nonempty_object(call_env.value)]
  /\ pc' = "returned"
  /\ UNCHANGED <<options, idx, events, ok_rows, error_rows, skipped_rows, pages,
                 stray, front, new_page, pending, how_opened, ops, cnt, clicked,
                 log_csv, log_status, start_display, end_display, run_no,
                 completed, raised, call_env, run_index, attention_flag>>

SelectPhoneCall ==
  /\ pc = "call"
  /\ call_env.fn = "_select_phone_value"
  /\ call_result' = [fn |-> "_select_phone_value",
                     out |-> select_phone_value(call_env.df_row)]
  /\ pc' = "returned"
  /\ UNCHANGED <<options, idx, events, ok_rows, error_rows, skipped_rows, pages,
                 stray, front, new_page, pending, how_opened, ops, cnt, clicked,
                 log_csv, log_status, start_display, end_display, run_no,
                 completed, raised, call_env, run_index, attention_flag>>

NextValues == NormalizeStatusCall \/ NormSpaceCall \/ SelectPhoneCall

SpecValues == InitValues /\ [][NextValues]_vars

\* ---- resume.py: resolve_resume_log_path ----

\* The run directories under the base directory, by name; RunDir is the
\* directory of the current log.
DirsLatestFirst == <<"2025-01-03", "2025-01-02", "2025-01-01">>
RunDir == "2025-01-02"
BaseDir == "logs"
DirNames == {DirsLatestFirst[k] : k \in DOMAIN DirsLatestFirst}

\* log_sbr_autofill_*.csv files of a directory, by modification time.
LogFiles == {"older", "newer"}

\* A directory: missing, or holding some logs and perhaps log_sbr_autofill.csv.
DirStates ==
  {[exists |-> FALSE, logs |-> {}, legacy |-> FALSE]}
    \cup [exists : {TRUE}, logs : SUBSET LogFiles, legacy : BOOLEAN]

FileSystems ==
  {fs \in [current : BOOLEAN, base_exists : BOOLEAN, base_legacy : BOOLEAN,
           dirs : [DirNames -> DirStates]] :
     /\ fs.current => fs.dirs[RunDir].exists
     /\ (\E d \in DirNames : fs.dirs[d].exists) => fs.base_exists
     /\ fs.base_legacy => fs.base_exists}

CurrentLog == [dir |-> RunDir, name |-> "current"]

\* sorted(directory.glob(...), key=mtime, reverse=True)[0]
NewestLog(logs) == IF "newer" \in logs THEN "newer" ELSE "older"

latest_matching_Oldest(fs, d) ==
  LET dir == fs.dirs[d]
  IN IF ~dir.exists THEN <<>>
     ELSE IF dir.logs # {}
       THEN <<[dir |-> d, name |-> IF "older" \in dir.logs THEN "older" ELSE "newer"]>>
     ELSE IF dir.legacy THEN <<[dir |-> d, name |-> "legacy"]>>
     ELSE <<>>

\* _latest_matching(directory): <<path>>, or <<>> for None.
latest_matching(fs, d) ==
  LET dir == fs.dirs[d]
  IN IF ~dir.exists THEN <<>>
     ELSE IF dir.logs # {}
       THEN <<[dir |-> d, name |-> NewestLog(dir.logs)]>>
     ELSE IF dir.legacy THEN <<[dir |-> d, name |-> "legacy"]>>
     ELSE <<>>

resolve_resume_log_path(fs) ==
  LET in_run == latest_matching(fs, RunDir)
      hits == SelectSeq(DirsLatestFirst,
                        LAMBDA d : latest_matching(fs, d) # <<>>)
  IN IF fs.current THEN CurrentLog
     ELSE IF fs.dirs[RunDir].exists /\ in_run # <<>> THEN in_run[1]
     ELSE IF fs.base_exists /\ hits # <<>>
       THEN latest_matching(fs, hits[1])[1]
     ELSE IF fs.base_exists /\ fs.base_legacy
       THEN [dir |-> BaseDir, name |-> "current"]
     ELSE CurrentLog

InitResolve ==
  /\ Idle
  /\ attention_flag = NoFlag
  /\ pc = "call"
  /\ call_env \in [fn : {"resolve_resume_log_path"}, fs : FileSystems]
  /\ call_result = NoCall

ResolveCall ==
  /\ pc = "call"
  /\ call_env.fn = "resolve_resume_log_path"
  /\ call_result' = [fn |-> "resolve_resume_log_path",
                     out |-> resolve_resume_log_path(call_env.fs)]
  /\ pc' = "returned"
  /\ UNCHANGED <<options, idx, events, ok_rows, error_rows, skipped_rows, pages,
                 stray, front, new_page, pending, how_opened, ops, cnt, clicked,
                 log_csv, log_status, start_display, end_display, run_no,
                 completed, raised, call_env, run_index, attention_flag>>

NextResolve == ResolveCall

SpecResolve == InitResolve /\ [][NextResolve]_vars

\* ---- utils.py: norm_space and norm_phone on the characters of a string ----

MaxTextLen == 4

\* A string is the sequence of its characters.
Alphabet == {"a", "1", "2", " ", "\t"}
Texts == UNION {[1..n -> Alphabet] : n \in 0..MaxTextLen}

\* \s of the regular expressions, and what str.strip() removes.
IsSpaceChar(c) == c \in {" ", "\t"}

\* \d of the regular expressions.
IsDigitChar(c) == c \in {"0", "1", "2"}

RECURSIVE lstrip(_)
lstrip(s) == IF s # <<>> /\ IsSpaceChar(Head(s)) THEN lstrip(Tail(s)) ELSE s

RECURSIVE rstrip(_)
rstrip(s) ==
  IF s # <<>> /\ IsSpaceChar(s[Len(s)]) THEN rstrip(SubSeq(s, 1, Len(s) - 1))
  ELSE s

strip(s) == rstrip(lstrip(s))

\* re.sub(r"\s+", " ", s)
RECURSIVE sub_spaces(_)
sub_spaces(s) ==
  IF s = <<>> THEN <<>>
  ELSE IF IsSpaceChar(Head(s)) THEN <<" ">> \o sub_spaces(lstrip(Tail(s)))
  ELSE <<Head(s)>> \o sub_spaces(Tail(s))

norm_space_chars_NoStrip(s) == sub_spaces(s)

norm_space_chars(s) == strip(sub_spaces(s))

norm_phone_chars_NoFilter(s) ==
  SelectSeq(norm_space_chars(s), LAMBDA c : ~IsSpaceChar(c))

\* "".join(re.findall(r"\d", norm_space(value)))
norm_phone_chars(s) == SelectSeq(norm_space_chars(s), IsDigitChar)

InitText ==
  /\ Idle
  /\ attention_flag = NoFlag
  /\ pc = "call"
  /\ call_env \in [fn : {"norm_space_str", "norm_phone"}, text : Texts]
  /\ call_result = NoCall

NormSpaceStrCall ==
  /\ pc = "call"
  /\ call_env.fn = "norm_space_str"
  /\ call_result' = [fn |-> "norm_space_str",
                     out |-> norm_space_chars(call_env.text),
                     again |-> norm_space_chars(norm_space_chars(call_env.text))]
  /\ pc' = "returned"
  /\ UNCHANGED <<options, idx, events, ok_rows, error_rows, skipped_rows, pages,
                 stray, front, new_page, pending, how_opened, ops, cnt, clicked,
                 log_csv, log_status, start_display, end_display, run_no,
                 completed, raised, call_env, run_index, attention_flag>>

NormPhoneCall ==
  /\ pc = "call"
  /\ call_env.fn = "norm_phone"
  /\ call_result' = [fn |-> "norm_phone",
                     out |-> norm_phone_chars(call_env.text),
                     again |-> norm_phone_chars(norm_phone_chars(call_env.text))]
  /\ pc' = "returned"
  /\ UNCHANGED <<options, idx, events, ok_rows, error_rows, skipped_rows, pages,
                 stray, front, new_page, pending, how_opened, ops, cnt, clicked,
                 log_csv, log_status, start_display, end_display, run_no,
                 completed, raised, call_env, run_index, attention_flag>>

NextText == NormSpaceStrCall \/ NormPhoneCall

SpecText == InitText /\ [][NextText]_vars

\* ---- table_actions.py: click_edit_by_text ----

MaxVariants == 2

\* What the page does for one candidate text: whether the live filter could be
\* set (applied), whether a matching row shows up (row), which edit control
\* the row has (control), whether the click on it succeeds (click), and
\* whether setting the filter back to "" succeeds (clear).
CandidateEnvs ==
  [applied : BOOLEAN, row : BOOLEAN, control : {"primary", "fallback", "none"},
   click : BOOLEAN, clear : BOOLEAN]

\* The outcomes that differ in what click_edit_by_text observes.
ObservedCandidateEnvs ==
  {c \in CandidateEnvs :
     /\ ~c.row => (c.control = "none" /\ c.click)
     /\ c.control = "none" => c.click
     /\ ~c.applied => c.clear}

\* _apply_table_search(page, "", timeout) after a filter was used; the table
\* filter is 0 when unfiltered, k when the filter of candidate k is set.
clear_filter(cand, current) ==
  IF cand.applied /\ cand.clear THEN 0 ELSE current

\* The loop over _text_variants(text) from candidate k on.
RECURSIVE click_edit_loop(_, _, _, _)
click_edit_loop(cands, k, current, click_wanted) ==
  IF k > Len(cands) THEN [ret |-> FALSE, filter |-> current]
  ELSE LET cand == cands[k]
           set == IF cand.applied THEN k ELSE current
       IN IF ~cand.row
            THEN click_edit_loop(cands, k + 1, clear_filter(cand, set), click_wanted)
          ELSE IF cand.control = "none"
            THEN click_edit_loop(cands, k + 1, set, click_wanted)
          ELSE IF ~click_wanted
            THEN [ret |-> TRUE, filter |-> clear_filter(cand, set)]
          ELSE IF cand.click
            THEN [ret |-> TRUE, filter |-> clear_filter(cand, set)]
          ELSE click_edit_loop(cands, k + 1, clear_filter(cand, set), click_wanted)

click_edit_by_text(e) == click_edit_loop(e.cands, 1, 0, e.perform_click)

InitClickText ==
  /\ Idle
  /\ attention_flag = NoFlag
  /\ pc = "call"
  /\ call_env \in [fn : {"click_edit_by_text"}, perform_click : BOOLEAN,
                    cands : UNION {[1..n -> ObservedCandidateEnvs] :
                                     n \in 0..MaxVariants}]
  /\ call_result = NoCall

ClickEditByTextCall ==
  /\ pc = "call"
  /\ call_env.fn = "click_edit_by_text"
  /\ call_result' = [fn |-> "click_edit_by_text",
                     out |-> click_edit_by_text(call_env)]
  /\ pc' = "returned"
  /\ UNCHANGED <<options, idx, events, ok_rows, error_rows, skipped_rows, pages,
                 stray, front, new_page, pending, how_opened, ops, cnt, clicked,
                 log_csv, log_status, start_display, end_display, run_no,
                 completed, raised, call_env, run_index, attention_flag>>

NextClickText == ClickEditByTextCall

SpecClickText == InitClickText /\ [][NextClickText]_vars

\* ---- table_actions.py: _text_variants ----

MaxCandidateLen == 4

\* Candidate texts: digits, both decimal marks, a sign, a letter and a blank.
CandidateAlphabet == {"0", "1", ",", ".", "-", "a", " "}
CandidateTexts == UNION {[1..n -> CandidateAlphabet] : n \in 0..MaxCandidateLen}

\* base.replace(",", ".")
replace_comma(s) == [i \in 1..Len(s) |-> IF s[i] = "," THEN "." ELSE s[i]]

\* \d+
AllDigits(s) == s # <<>> /\ \A i \in 1..Len(s) : IsDigitChar(s[i])

Unsigned(s) == IF s # <<>> /\ Head(s) = "-" THEN Tail(s) ELSE s

\* re.fullmatch(r"-?\d+(?:\.\d+)?", s)
fullmatch_number(s) ==
  LET u == Unsigned(s)
      dots == {i \in 1..Len(u) : u[i] = "."}
  IN IF dots = {} THEN AllDigits(u)
     ELSE /\ Cardinality(dots) = 1
          /\ LET d == CHOOSE i \in dots : TRUE
             IN /\ AllDigits(SubSeq(u, 1, d - 1))
                /\ AllDigits(SubSeq(u, d + 1, Len(u)))

\* str.rstrip(c) and str.lstrip(c) for a single character c
RECURSIVE rstrip_char(_, _)
rstrip_char(s, c) ==
  IF s # <<>> /\ s[Len(s)] = c THEN rstrip_char(SubSeq(s, 1, Len(s) - 1), c) ELSE s

RECURSIVE lstrip_char(_, _)
lstrip_char(s, c) == IF s # <<>> /\ Head(s) = c THEN lstrip_char(Tail(s), c) ELSE s

\* The digits before and after the decimal point of a text that matches
\* fullmatch_number.
IntegerDigits(s) ==
  LET u == Unsigned(s)
      dots == {i \in 1..Len(u) : u[i] = "."}
  IN IF dots = {} THEN u ELSE SubSeq(u, 1, (CHOOSE i \in dots : TRUE) - 1)

FractionDigits(s) ==
  LET u == Unsigned(s)
      dots == {i \in 1..Len(u) : u[i] = "."}
  IN IF dots = {} THEN <<>> ELSE SubSeq(u, (CHOOSE i \in dots : TRUE) + 1, Len(u))

\* float(s).is_integer()
is_integer(s) == rstrip_char(FractionDigits(s), "0") = <<>>

\* str(int(float(s))) for a text with is_integer(s)
integer_form(s) ==
  LET digits == lstrip_char(IntegerDigits(s), "0")
  IN IF digits = <<>> THEN <<"0">>
     ELSE IF Head(s) = "-" THEN <<"-">> \o digits ELSE digits

\* variants.append(v) guarded by "v not in variants"
append_new(variants, v) ==
  IF v \in {variants[i] : i \in DOMAIN variants} THEN variants
  ELSE Append(variants, v)

\* The closing loop that drops duplicates and keeps the order.
RECURSIVE ordered_unique(_, _)
ordered_unique(variants, ordered) ==
  IF variants = <<>> THEN ordered
  ELSE ordered_unique(Tail(variants), append_new(ordered, Head(variants)))

text_variants(raw_text) ==
  LET base == strip(raw_text)
      decimal_variant == replace_comma(base)
      v1 == append_new(<<base>>, decimal_variant)
      stripped == rstrip_char(rstrip_char(decimal_variant, "0"), ".")
      v2 == IF stripped # <<>> THEN append_new(v1, stripped) ELSE v1
      v3 == IF is_integer(decimal_variant)
              THEN append_new(v2, integer_form(decimal_variant)) ELSE v2
  IN IF base = <<>> THEN <<>>
     ELSE IF fullmatch_number(decimal_variant) THEN ordered_unique(v3, <<>>)
     ELSE ordered_unique(v1, <<>>)

InitVariants ==
  /\ Idle
  /\ attention_flag = NoFlag
  /\ pc = "call"
  /\ call_env \in [fn : {"_text_variants"}, text : CandidateTexts]
  /\ call_result = NoCall

TextVariantsCall ==
  /\ pc = "call"
  /\ call_env.fn = "_text_variants"
  /\ call_result' = [fn |-> "_text_variants", out |-> text_variants(call_env.text)]
  /\ pc' = "returned"
  /\ UNCHANGED <<options, idx, events, ok_rows, error_rows, skipped_rows, pages,
                 stray, front, new_page, pending, how_opened, ops, cnt, clicked,
                 log_csv, log_status, start_display, end_display, run_no,
                 completed, raised, call_env, run_index, attention_flag>>

NextVariants == TextVariantsCall

SpecVariants == InitVariants /\ [][NextVariants]_vars

----------------------------------------------------------------------------
\* Properties.

EventsOf(r) == SelectSeq(events, LAMBDA e : e.row_index = r)
HasEvent(r, stg) == \E k \in DOMAIN events :
                      events[k].row_index = r /\ events[k].stage = stg
\* The row loop is through with row r.
Processed(r) == r < idx \/ (r = idx /\ pc \in {"finish", "done", "crashed"})
RowSucceeded(r) == HasEvent(r, "ROW_DONE") \/ HasEvent(r, "DRY_RUN")
Range(seq) == {seq[k] : k \in DOMAIN seq}

\* C1: with stop_on_error set, the log of the run contains at most one ERROR
\* event, and that event is the last event of the log.
C1_StopOnErrorOneError ==
  stop_on_error =>
    \A k \in DOMAIN events : events[k].level = "ERROR" => k = Len(events)

\* C2: in process_autofill without stop_on_error, a row whose edit control is
\* not found has exactly one event, a CLICK_EDIT/ERROR, adds exactly one to the
\* error count and nothing to the others, and the rows after it are still
\* processed; when every other row of the range succeeds the final counts are
\* ok = rows - 1, error = 1, skip = 0.
C2_NotFoundRowContinues ==
  (command = "autofill" /\ ~stop_on_error) =>
    \A r \in Rows : clicked[r] = "false" =>
      /\ Len(EventsOf(r)) = 1
      /\ EventsOf(r)[1].level = "ERROR"
      /\ EventsOf(r)[1].stage = "CLICK_EDIT"
      /\ cnt[r] = CountError
      /\ r < end_display => idx > r
      /\ pc \in {"finish", "done"} =>
            \A s \in (r + 1)..end_display : clicked[s] # "none"
      /\ (pc = "done" /\ \A s \in (1..end_display) \ {r} : RowSucceeded(s)) =>
            /\ ok_rows = end_display - 1
            /\ error_rows = 1
            /\ skipped_rows = 0

\* C2 witness: 3 rows, only the control of row 2 is not found.
C2_Witness ==
  /\ command = "autofill" /\ ~stop_on_error /\ ~dry_run
  /\ end_display = 3 /\ pc = "done"
  /\ clicked[2] = "false"
  /\ HasEvent(1, "ROW_DONE") /\ HasEvent(3, "ROW_DONE")
  /\ ok_rows = 2 /\ error_rows = 1 /\ skipped_rows = 0

\* C3: when a row is over (the next row is about to start, or the loop has
\* ended), every tab opened while processing rows is closed and the listing
\* tab is open and in front.
C3_CleanAfterEveryRow ==
  pc \in {"row", "finish"} =>
    /\ stray = 0
    /\ pages = {ListingPage}
    /\ front = ListingPage

\* C4: no exception raised while a row is processed leaves the row loop.
C4_NoExceptionLeavesLoop == pc # "crashed" /\ raised = ""

\* A log with one row per display index.
OneRowPerIndex(rows) ==
  \A j, k \in DOMAIN rows :
    (rows[j].row_index >= 0 /\ rows[j].row_index = rows[k].row_index) => j = k

\* C5: for a log with one row per display index, load_resume_entries returns
\* exactly the display indices of the range whose row has level OK; for a
\* missing or unreadable file it returns the empty set, and nothing is raised.
C5_LoadResumeEntries ==
  pc = "loaded" =>
    /\ raised = ""
    /\ log_status # "ok" => DOMAIN resume_entries = {}
    /\ (log_status = "ok" /\ OneRowPerIndex(log_csv)) =>
          DOMAIN resume_entries =
            {i \in start_display..end_display :
               \E k \in DOMAIN log_csv :
                 log_csv[k].row_index = i /\ log_csv[k].level = "OK"}

\* C5 witness: rows {1: OK, 2: ERROR, 5: OK} and the range [1, 3] give {1}.
C5_Witness ==
  /\ pc = "loaded" /\ log_status = "ok"
  /\ start_display = 1 /\ end_display = 3
  /\ Len(log_csv) = 3
  /\ log_csv[1].row_index = 1 /\ log_csv[1].level = "OK"
  /\ log_csv[2].row_index = 2 /\ log_csv[2].level = "ERROR"
  /\ log_csv[3].row_index = 5 /\ log_csv[3].level = "OK"
  /\ DOMAIN resume_entries = {1}

\* C6: in resume mode a row of the eligible set gets no UI operation, exactly
\* one event, RESUME_SKIP/OK, whose note carries the prior level, stage and
\* note, and counts as skipped; a row of the range outside the eligible set
\* is processed normally, starting with the edit click, and is not
\* resume-skipped.
C6_ResumeSkip ==
  (command = "autofill" /\ resume) =>
    \A r \in Rows : Processed(r) =>
      IF r \in DOMAIN resume_entries
        THEN /\ ops[r] = {} /\ clicked[r] = "none"
             /\ Len(EventsOf(r)) = 1
             /\ EventsOf(r)[1].stage = "RESUME_SKIP"
             /\ EventsOf(r)[1].level = "OK"
             /\ resume_entries[r].level \in Range(EventsOf(r)[1].note)
             /\ resume_entries[r].stage \in Range(EventsOf(r)[1].note)
             /\ Range(resume_entries[r].note) \subseteq Range(EventsOf(r)[1].note)
             /\ cnt[r] = CountSkip
        ELSE /\ clicked[r] # "none"
             /\ "detect" \in ops[r]
             /\ ~HasEvent(r, "RESUME_SKIP")

\* C6 witness: a resume run that skipped one row and processed another.
C6_Witness ==
  /\ command = "autofill" /\ resume /\ run_no > 1 /\ pc = "done"
  /\ \E r, s \in 1..end_display :
       /\ r \in DOMAIN resume_entries /\ cnt[r] = CountSkip
       /\ resume_entries[r].note # <<>>
       /\ s \notin DOMAIN resume_entries /\ HasEvent(s, "ROW_DONE")

\* C7: a row is resume-skipped only if some earlier run submitted its form or
\* found it already finalized.
C7_SkippedOnlyIfCompleted ==
  \A k \in DOMAIN events :
    events[k].stage = "RESUME_SKIP" => events[k].row_index \in completed

\* C8: in dry-run mode no row gets any UI operation but the detection of the
\* edit control, no tab is ever opened, each row whose control is found has
\* exactly one event, DRY_RUN/OK, and counts as ok; when every control of the
\* range is found the final counts are ok = rows, error = 0, skip = 0.
C8_DryRunOnlyDetects ==
  (command = "autofill" /\ dry_run) =>
    /\ \A r \in Rows : ops[r] \subseteq {"detect"}
    /\ pages = {ListingPage} /\ stray = 0 /\ new_page = "none"
    /\ front = ListingPage
    /\ \A r \in Rows : clicked[r] = "true" =>
          /\ Len(EventsOf(r)) = 1
          /\ EventsOf(r)[1].stage = "DRY_RUN"
          /\ EventsOf(r)[1].level = "OK"
          /\ cnt[r] = CountOk
    /\ (pc = "done" /\ \A r \in 1..end_display : clicked[r] = "true") =>
          /\ ok_rows = end_display
          /\ error_rows = 0
          /\ skipped_rows = 0

\* C8 witness: a dry run of 2 rows, both controls found.
C8_Witness ==
  /\ command = "autofill" /\ dry_run /\ end_display = 2 /\ pc = "done"
  /\ clicked[1] = "true" /\ clicked[2] = "true"
  /\ HasEvent(1, "DRY_RUN") /\ HasEvent(2, "DRY_RUN")
  /\ ok_rows = 2 /\ error_rows = 0 /\ skipped_rows = 0

\* C9: a row whose form was found finalized (FINAL_SKIP logged) is neither
\* filled nor submitted, has its form tab closed, and counts as skipped and
\* as nothing else.
C9_FinalizedRowIsSkipped ==
  \A r \in Rows : (Processed(r) /\ HasEvent(r, "FINAL_SKIP")) =>
    /\ ops[r] \cap {"fill", "submit"} = {}
    /\ "close_form" \in ops[r]
    /\ cnt[r] = CountSkip

\* C10: a row whose form was found locked has exactly one WARN/ACCESS event,
\* is neither filled nor submitted, counts as skipped, and the run goes on.
C10_LockedRowIsSkipped ==
  \A r \in Rows : (Processed(r) /\ HasEvent(r, "ACCESS")) =>
    /\ Len(SelectSeq(EventsOf(r), LAMBDA e : e.stage = "ACCESS")) = 1
    /\ ops[r] \cap {"fill", "submit"} = {}
    /\ cnt[r] = CountSkip
    /\ pc # "crashed"
    /\ r < end_display => idx > r

\* The events of row r at stage stg, and its SUBMIT/ERROR events that carry a
\* result code of submit_form.
StageEvents(r, stg) == SelectSeq(EventsOf(r), LAMBDA e : e.stage = stg)
SubmitCodeEvents(r) ==
  SelectSeq(StageEvents(r, "SUBMIT"),
            LAMBDA e : e.level = "ERROR" /\ e.note \in {<<c>> : c \in SubmitCodes \ {"OK"}})

\* C11: a row has a ROW_DONE event and counts as ok only if submit_form
\* returned OK for it (SUBMIT/OK logged); a row for which submit_form returned
\* another code has exactly one ERROR/SUBMIT event, counts as one error, has
\* its form tab closed and has no ROW_DONE event.
C11_OnlyOkCodeCompletes ==
  (command = "autofill" /\ ~dry_run) =>
    \A r \in Rows : Processed(r) =>
      /\ (HasEvent(r, "ROW_DONE") \/ cnt[r].ok > 0) =>
            \E k \in DOMAIN events :
              /\ events[k].row_index = r
              /\ events[k].stage = "SUBMIT" /\ events[k].level = "OK"
      /\ SubmitCodeEvents(r) # <<>> =>
            /\ Len(SelectSeq(StageEvents(r, "SUBMIT"), LAMBDA e : e.level = "ERROR")) = 1
            /\ cnt[r] = CountError
            /\ "close_form" \in ops[r]
            /\ ~HasEvent(r, "ROW_DONE")

C13_NoSubmitControl ==
  (pc = "returned" /\ call_result.fn = "submit_form"
     /\ call_env.role_at > SUBMIT_CLICK_ATTEMPTS
     /\ call_env.text_at > SUBMIT_CLICK_ATTEMPTS) =>
    /\ call_result.role_tries = SUBMIT_CLICK_ATTEMPTS
    /\ call_result.text_tries = SUBMIT_CLICK_ATTEMPTS
    /\ call_result.code =
         (IF call_env.cancel_visible = "yes" THEN "OK" ELSE "NO_SUBMIT_BUTTON")
    /\ call_result.confirm_polls = 0
    /\ call_result.success_polls = 0
    /\ ~call_result.clicked_confirm

\* C13 witness: no submit control, cancel-submit visible: OK.
C13_Witness ==
  /\ pc = "returned" /\ call_result.fn = "submit_form"
  /\ call_env.role_at > SUBMIT_CLICK_ATTEMPTS
  /\ call_env.text_at > SUBMIT_CLICK_ATTEMPTS
  /\ call_env.cancel_visible = "yes"
  /\ call_result.code = "OK"

\* C14: whenever the 'fields need fixing' message is visible after the submit
\* click, the result is ERROR_FILL, whether or not dismissing it succeeds, and
\* neither polling loop is run.
C14_FixMessageIsErrorFill ==
  (pc = "returned" /\ call_result.fn = "submit_form"
     /\ ~call_result.raised /\ call_env.err_visible) =>
    /\ call_result.code = "ERROR_FILL"
    /\ call_result.confirm_polls = 0
    /\ call_result.success_polls = 0

\* C15: _do_cancel clicks cancel, then confirms, then polls for the
\* acknowledgement; a failed click or confirmation returns its error without the
\* later steps; once both went through the result is OK when the
\* acknowledgement was clicked or never showed in 20 polls; and process_cancel
\* logs CANCEL/OK exactly when the result is OK, CANCEL/ERROR otherwise.
C15_CancelOrderAndLog ==
  [][pc = "cancel_log" =>
       /\ call_result.steps \in {<<"click">>, <<"click", "confirm">>,
                                 <<"click", "confirm", "ack">>}
       /\ ~call_env.click =>
             /\ call_result.steps = <<"click">>
             /\ call_result.raw = "ERROR: Gagal klik Cancel Submit"
       /\ (call_env.click /\ ~call_env.confirm) =>
             /\ call_result.steps = <<"click", "confirm">>
             /\ call_result.raw = "ERROR: Gagal klik 'Ya, batalkan!'"
       /\ (call_env.click /\ call_env.confirm /\ call_env.ack # "raises") =>
             /\ call_result.raw = "OK"
             /\ call_env.ack = "none" => call_result.polls = CANCEL_POLLS
       /\ call_result.raw \in CancelResults
       /\ events' = Append(events,
             LogEvent(idx, IF call_result.raw = "OK" THEN "OK" ELSE "ERROR",
                      "CANCEL", <<call_result.raw>>))
       /\ ok_rows' = ok_rows + (IF call_result.raw = "OK" THEN 1 ELSE 0)
       /\ error_rows' = error_rows + (IF call_result.raw = "OK" THEN 0 ELSE 1)]_vars

\* C15 witness: a row whose cancel failed is logged CANCEL/ERROR, and the next
\* row's _do_cancel returned OK without any acknowledgement in 20 polls.
C15_Witness ==
  /\ pc = "cancel_log"
  /\ call_env.click /\ call_env.confirm /\ call_env.ack = "none"
  /\ call_result.raw = "OK" /\ call_result.polls = CANCEL_POLLS
  /\ \E k \in DOMAIN events :
       events[k].stage = "CANCEL" /\ events[k].level = "ERROR" /\ events[k].row_index < idx

\* C16: a failed write to a field never aborts fill_form and adds an entry to
\* the errors list, so that the FILL event of the row has level ERROR.
C16_FailuresAreReported ==
  (call_result.fn = "fill_form" /\ call_result.last.out.failed) =>
    /\ ~call_result.raised
    /\ call_result.last.out.errors # <<>>
    /\ FillLevel(call_result.errors) = "ERROR"

\* C17: a field whose Excel cell is empty or whitespace-only is not reported
\* as an error and no control of the field is written to.
C17_EmptyCellIsLeftAlone ==
  (call_result.fn = "fill_form" /\ call_result.last.field # "none"
     /\ call_result.last.cell \in {"", " "}) =>
    /\ ~call_result.last.out.wrote
    /\ call_result.last.out.errors = <<>>

\* The status cell of the row reads Duplikat.
RowIsDuplikat == call_env.status_cell \in {"duplikat", "9"}

IdsbrStep == call_result.fn = "fill_form" /\ call_result.last.field = "idsbr_master"

\* C18 as stated: empty with Duplikat is an error and not a skip, empty with
\* another status a skip; a value with Duplikat is filled in and the
\* confirmation run, its failure adding an error; a value with another status
\* is filled in without confirmation.
C18_IdsbrMasterAsStated ==
  IdsbrStep =>
    LET out == call_result.last.out
        empty == call_result.last.cell \in {"", " "}
    IN  /\ (empty /\ RowIsDuplikat) => (out.errors # <<>> /\ out.skipped = 0)
        /\ (empty /\ ~RowIsDuplikat) => (out.skipped = 1 /\ out.errors = <<>>)
        /\ (~empty /\ RowIsDuplikat) =>
              /\ out.wrote /\ ~out.failed
              /\ out.confirm # "none"
              /\ out.confirm = "failed" => out.errors # <<>>
        /\ (~empty /\ ~RowIsDuplikat) =>
              /\ out.wrote /\ ~out.failed
              /\ out.confirm = "none"

\* C18 amended: a value is written only when a selector is configured; a
\* missing selector or a failed write adds one error and the confirmation is
\* not run; after a successful write the confirmation runs exactly when the
\* status is Duplikat and the pause after the write did not raise, and its
\* failure adds one error.
C18_IdsbrMaster ==
  IdsbrStep =>
    LET out == call_result.last.out
        pg == call_result.last.page
        empty == call_result.last.cell \in {"", " "}
        filled == ~empty /\ pg.selector /\ pg.write = "ok"
    IN  /\ (empty /\ RowIsDuplikat) =>
              (Len(out.errors) = 1 /\ out.skipped = 0 /\ ~out.wrote)
        /\ (empty /\ ~RowIsDuplikat) =>
              (out.skipped = 1 /\ out.errors = <<>> /\ ~out.wrote)
        /\ (~empty /\ ~pg.selector) =>
              (~out.wrote /\ Len(out.errors) = 1 /\ out.confirm = "none")
        /\ (~empty /\ pg.selector /\ pg.write = "fails") =>
              (out.failed /\ Len(out.errors) = 1 /\ out.confirm = "none")
        /\ filled => (out.wrote /\ ~out.failed)
        /\ (filled /\ ~RowIsDuplikat) => (out.confirm = "none" /\ out.errors = <<>>)
        /\ (filled /\ RowIsDuplikat /\ call_result.raised) => out.confirm = "none"
        /\ (filled /\ RowIsDuplikat /\ ~call_result.raised) =>
              /\ out.confirm = (IF pg.accept = "ok" THEN "ok" ELSE "failed")
              /\ Len(out.errors) = (IF pg.accept = "ok" THEN 0 ELSE 1)

\* C18 witness: Duplikat with a value whose write fails: one error, and the
\* confirmation is not run.
C18_Witness ==
  /\ IdsbrStep
  /\ RowIsDuplikat
  /\ call_result.last.cell = "v"
  /\ call_result.last.page.selector /\ call_result.last.page.write = "fails"
  /\ call_result.last.out.errors = <<IDSBR_FILL_NOTE>>
  /\ call_result.last.out.confirm = "none"

\* C19 as stated: when the row loop of process_autofill has ended, the log CSV
\* holds exactly the events of the run, in order, and the run's index entry
\* is written with the three counters.
C19_SavedAsStated ==
  (command = "autofill" /\ pc = "done") =>
    /\ log_status = "ok"
    /\ log_csv = events
    /\ run_index = [written |-> TRUE, ok_rows |-> ok_rows,
                    error_rows |-> error_rows, skipped_rows |-> skipped_rows]

\* C19 amended: the CSV is written only when the run appended an event; a run
\* over an empty range appends none and leaves no CSV; the index entry is
\* written in both cases, and not before the loop has ended.
C19_SavedAfterLoop ==
  command = "autofill" =>
    /\ pc = "done" =>
          /\ events # <<>> => (log_status = "ok" /\ log_csv = events)
          /\ events = <<>> => (NoRows(end_display) /\ log_status = "missing")
          /\ run_index = [written |-> TRUE, ok_rows |-> ok_rows,
                          error_rows |-> error_rows, skipped_rows |-> skipped_rows]
    /\ pc # "done" => ~run_index.written

\* C19 witness: a run halted by stop_on_error before its last row, with a
\* skipped row before the error, saved and indexed.
C19_Witness ==
  /\ command = "autofill" /\ pc = "done" /\ stop_on_error
  /\ idx < end_display
  /\ error_rows = 1 /\ skipped_rows = 1
  /\ log_csv = events /\ Len(events) > 1
  /\ run_index.written /\ run_index.error_rows = 1 /\ run_index.skipped_rows = 1

\* Position of a stage in the order of a row's stages, 0 for the others.
StageRank(stg) ==
  CASE stg = "OPEN_TAB" -> 1
    [] stg = "FILL" -> 2
    [] stg = "SUBMIT" -> 3
    [] stg = "ROW_DONE" -> 4
    [] OTHER -> 0

\* C20: along the log of an autofill run row indices never decrease, a stage
\* appears at most once per row, the stages of a row come in the order
\* OPEN_TAB, FILL, SUBMIT, ROW_DONE, and an ERROR or WARN event is the last
\* event of its row.
C20_EventsInProcessingOrder ==
  command = "autofill" =>
    \A i, j \in DOMAIN events :
      i < j =>
        /\ events[i].row_index <= events[j].row_index
        /\ events[i].row_index = events[j].row_index =>
              /\ events[i].stage # events[j].stage
              /\ (StageRank(events[i].stage) > 0 /\ StageRank(events[j].stage) > 0) =>
                    StageRank(events[i].stage) < StageRank(events[j].stage)
              /\ events[i].level \notin {"ERROR", "WARN"}

HasErrorEvent == \E k \in DOMAIN events : events[k].level = "ERROR"

C22_IndexKeepsOtherRuns ==
  (call_env.fn = "update_run_index" /\ call_env.n > 0) =>
    LET rows == call_result.rows
        other(row) == row.run_id # call_env.entry.run_id
    IN  /\ SelectSeq(rows, LAMBDA row : ~other(row)) = <<call_env.entry>>
        /\ SelectSeq(rows, other) = SelectSeq(call_env.before, other)

\* The calls of fn, among the first n, that succeed.
RetrySuccesses == {k \in 1..call_env.attempts : call_env.outs[k] \in RetryValues}

\* C23: with_retry with attempts = n >= 1 calls fn at most n times; it returns
\* the result of the first successful call without a further call, and when
\* all n calls fail it raises the exception of the n-th call after n calls.
C23_WithRetry ==
  (pc = "returned" /\ call_result.fn = "with_retry" /\ call_env.attempts >= 1) =>
    LET out == call_result.out
    IN  /\ out.calls \in 1..call_env.attempts
        /\ RetrySuccesses # {} =>
              /\ \A k \in RetrySuccesses : out.calls <= k
              /\ out.calls \in RetrySuccesses
              /\ out.result = call_env.outs[out.calls]
              /\ out.raised = ""
        /\ RetrySuccesses = {} =>
              /\ out.calls = call_env.attempts
              /\ out.raised = call_env.outs[call_env.attempts]
              /\ out.result = ""

\* C23 witness: fn fails once, then succeeds: 2 calls of 3 allowed.
C23_Witness ==
  /\ pc = "returned" /\ call_result.fn = "with_retry"
  /\ call_env.attempts = 3
  /\ call_env.outs[1] = "e1" /\ call_env.outs[2] = "v1"
  /\ call_result.out = [calls |-> 2, result |-> "v1", raised |-> ""]

\* The logical columns a run requires: the base schema and the strategy's.
LogicalRequired(match_by) ==
  {"status", "email", "sumber", "catatan"}
    \cup (CASE match_by = "idsbr" -> {"idsbr"}
            [] match_by = "name" -> {"nama"}
            [] OTHER -> {})

MissingLogical(e) ==
  {col \in LogicalRequired(e.match_by) :
     Range(COLUMN_ALIASES[col]) \cap e.columns = {}}

LoadRowsReturned == pc = "returned" /\ call_result.fn = "load_rows"

\* C24: when a required logical column is missing, the error of load_rows
\* names exactly the missing logical columns, base-schema and match-strategy
\* alike, and none that is present directly or through an alias.
C24_MessageNamesMissing ==
  (LoadRowsReturned /\ call_result.out.raised /\ MissingLogical(call_env) # {})
    => Range(call_result.out.names) = MissingLogical(call_env)

\* C25: with the profile-payload columns present, validation passes whenever
\* every logical column of the base schema and of the match strategy has at
\* least one of its known aliases among the sheet's columns.
C25_AliasesAccepted ==
  (/\ LoadRowsReturned
   /\ Range(PROFILE_FIELD_KEYS) \subseteq call_env.columns
   /\ MissingLogical(call_env) = {})
    => ~call_result.out.raised

RangeLo(e) == IF e.start_row = <<>> THEN 1 ELSE Max(e.start_row[1], 1)
RangeHi(e) == IF e.end_row = <<>> THEN e.n ELSE Min(e.end_row[1], e.n)

\* C26: for a range that selects at least one row, load_rows yields, in
\* ascending order, one RowContext per display index from max(start, 1) to
\* min(end, n), each with display_index = table_index + 1, and returns the
\* first and the last of these display indices.
C26_RangeOfRows ==
  (LoadRowsReturned /\ ~call_result.out.raised
     /\ RangeLo(call_env) <= RangeHi(call_env))
    => LET out == call_result.out
           lo == RangeLo(call_env)
           hi == RangeHi(call_env)
       IN /\ Len(out.contexts) = hi - lo + 1
          /\ \A k \in DOMAIN out.contexts :
               /\ out.contexts[k].display_index = lo + k - 1
               /\ out.contexts[k].display_index
                    = out.contexts[k].table_index + 1
          /\ out.start = lo
          /\ out.end = hi

C26_Witness ==
  /\ LoadRowsReturned
  /\ call_env.start_row = <<2>>
  /\ call_env.end_row # <<>>
  /\ call_env.end_row[1] > call_env.n
  /\ Len(call_result.out.contexts) >= 2
  /\ call_result.out.start = 2
  /\ call_result.out.end = call_env.n

\* C27: an ERROR or WARN event logged after a screenshot attempt whose capture
\* failed carries the reason of the failure at the end of its note and an
\* empty screenshot field, on every path that takes a screenshot.
C27_FailedShotIsNoted ==
  (pc = "returned" /\ call_result.fn = "shot_event"
     /\ call_env.capture # "ok")
    => LET ev == call_result.event
           reason == take_screenshot(call_env.capture).reason
       IN /\ ev.screenshot = ""
          /\ reason # "" =>
               /\ Len(ev.note) >= 2
               /\ ev.note[Len(ev.note)] = reason

NumericStatus == {"1", "2", "3", "4", "5", "6", "7", "8", "9", "10", "11"}

\* C28: _normalize_status maps each numeric string "1".."11" to its entry of
\* the canonical status table, maps a string that is in the alias table when
\* compared case-insensitively to its canonical label, and returns every
\* other string, numeric strings outside the table included, unchanged.
C28_NormalizeStatus ==
  (pc = "returned" /\ call_result.fn = "_normalize_status")
    => LET st == call_env.status
           out == call_result.out
       IN IF st \in NumericStatus THEN out = STATUS_NUMERIC_MAP[st]
          ELSE IF Lower(st) \in DOMAIN STATUS_NORMALIZATION
            THEN out = STATUS_NORMALIZATION[Lower(st)]
          ELSE out = st

C28_Witness ==
  /\ pc = "returned"
  /\ call_result.fn = "_normalize_status"
  /\ call_env.status = "Belum Berproduksi"
  /\ call_result.out = "Belum Beroperasi/Berproduksi"

\* C29: norm_space returns the empty string for None, for a float NaN and
\* for the pandas NA value, and nonempty is false for each of them.
C29_NullLikeIsEmpty ==
  (pc = "returned" /\ call_result.fn = "norm_space"
     /\ call_env.value.kind \in {"None", "float_nan", "NA"})
    => (call_result.out = "" /\ ~call_result.nonempty)

PhoneLike == PHONE_COLUMN_CANDIDATES \o <<"nomor_whatsapp">>

FilledPhoneLike(df_row) ==
  SelectSeq(PhoneLike, LAMBDA column : /\ column \in DOMAIN df_row
                                       /\ df_row[column] \notin {"", " "})

\* C30: when the preferred phone column of a row is blank and another
\* phone-like column (a phone alias or nomor_whatsapp) holds a non-blank
\* value, that value is returned, the first in candidate order when several
\* candidates are filled.
C30_PrefersFilledColumn ==
  (/\ pc = "returned"
   /\ call_result.fn = "_select_phone_value"
   /\ "nomor_telepon" \in DOMAIN call_env.df_row
   /\ call_env.df_row["nomor_telepon"] \in {"", " "}
   /\ FilledPhoneLike(call_env.df_row) # <<>>)
    => call_result.out
         = <<call_env.df_row[FilledPhoneLike(call_env.df_row)[1]]>>

ResolveReturned == pc = "returned" /\ call_result.fn = "resolve_resume_log_path"

\* The sibling run directories that hold a log_sbr_autofill_*.csv, latest
\* directory name first.
SiblingsWithLogs(fs) ==
  SelectSeq(DirsLatestFirst,
            LAMBDA d : d # RunDir /\ fs.dirs[d].exists /\ fs.dirs[d].logs # {})

\* C31 as stated: the current log when it exists; otherwise the most recently
\* modified log_sbr_autofill_*.csv of the run directory; the sibling run
\* directories, latest name first, only when the run directory has none; the
\* current log when nothing is found anywhere.
C31_ResolveAsStated ==
  ResolveReturned
    => LET fs == call_env.fs
           out == call_result.out
       IN IF fs.current THEN out = CurrentLog
          ELSE IF fs.dirs[RunDir].logs # {}
            THEN out = [dir |-> RunDir, name |-> NewestLog(fs.dirs[RunDir].logs)]
          ELSE IF SiblingsWithLogs(fs) # <<>>
            THEN LET d == SiblingsWithLogs(fs)[1]
                 IN out = [dir |-> d, name |-> NewestLog(fs.dirs[d].logs)]
          ELSE out = CurrentLog

\* What a directory offers: its newest log_sbr_autofill_*.csv, or else its
\* log_sbr_autofill.csv.
DirOffer(fs, d) ==
  IF fs.dirs[d].logs # {} THEN <<NewestLog(fs.dirs[d].logs)>>
  ELSE IF fs.dirs[d].legacy THEN <<"legacy">>
  ELSE <<>>

SiblingsWithOffer(fs) ==
  SelectSeq(DirsLatestFirst, LAMBDA d : d # RunDir /\ DirOffer(fs, d) # <<>>)

\* C31: resolve_resume_log_path returns the current log when it exists;
\* otherwise the run directory's newest log_sbr_autofill_*.csv, or else its
\* log_sbr_autofill.csv; when the run directory offers neither, the same
\* choice from the sibling run directories, latest name first; then a file
\* named like the current log in the base directory; and the current log
\* when nothing is found anywhere.
C31_Resolve ==
  ResolveReturned
    => LET fs == call_env.fs
           out == call_result.out
       IN IF fs.current THEN out = CurrentLog
          ELSE IF DirOffer(fs, RunDir) # <<>>
            THEN out = [dir |-> RunDir, name |-> DirOffer(fs, RunDir)[1]]
          ELSE IF SiblingsWithOffer(fs) # <<>>
            THEN LET d == SiblingsWithOffer(fs)[1]
                 IN out = [dir |-> d, name |-> DirOffer(fs, d)[1]]
          ELSE IF fs.base_legacy THEN out = [dir |-> BaseDir, name |-> "current"]
          ELSE out = CurrentLog

C31_Witness ==
  /\ ResolveReturned
  /\ ~call_env.fs.current
  /\ call_env.fs.dirs[RunDir].exists
  /\ DirOffer(call_env.fs, RunDir) = <<>>
  /\ call_env.fs.dirs["2025-01-03"].logs = {}
  /\ call_env.fs.dirs["2025-01-01"].logs = LogFiles
  /\ call_result.out = [dir |-> "2025-01-01", name |-> "newer"]

\* The positions of a text that hold a digit, in order.
DigitsOf(s) == SelectSeq(s, LAMBDA c : c \in {"1", "2"})

\* C32: norm_phone(x) consists of exactly the digit characters of x in their
\* original order, and norm_phone(norm_phone(x)) = norm_phone(x).
C32_NormPhone ==
  (pc = "returned" /\ call_result.fn = "norm_phone")
    => /\ call_result.out = DigitsOf(call_env.text)
       /\ call_result.again = call_result.out

C32_Witness ==
  /\ pc = "returned"
  /\ call_result.fn = "norm_phone"
  /\ call_env.text = <<"1", "a", " ", "2">>
  /\ call_result.out = <<"1", "2">>

IsBlank(c) == c \in {" ", "\t"}

\* The words of a text: its maximal runs of characters that are no whitespace.
RECURSIVE Words(_, _)
Words(s, word) ==
  IF s = <<>> THEN (IF word = <<>> THEN <<>> ELSE <<word>>)
  ELSE IF IsBlank(Head(s))
    THEN (IF word = <<>> THEN <<>> ELSE <<word>>) \o Words(Tail(s), <<>>)
  ELSE Words(Tail(s), Append(word, Head(s)))

\* C33: norm_space(x) has every run of whitespace replaced by a single space
\* and no leading or trailing whitespace (the words of x, in order, joined by
\* single spaces), and norm_space(norm_space(x)) = norm_space(x).
C33_NormSpace ==
  (pc = "returned" /\ call_result.fn = "norm_space_str")
    => LET out == call_result.out
       IN /\ Words(out, <<>>) = Words(call_env.text, <<>>)
          /\ \A k \in DOMAIN out : out[k] # "\t"
          /\ \A k \in DOMAIN out :
               out[k] = " " => (k > 1 /\ k < Len(out) /\ out[k + 1] # " ")
          /\ call_result.again = out

C33_Witness ==
  /\ pc = "returned"
  /\ call_result.fn = "norm_space_str"
  /\ call_env.text = <<" ", "a", "\t", " ">>
  /\ call_result.out = <<"a">>

\* The level of the last row the log of the run before holds for display
\* index r, "none" when it holds no row for r.
LastLoggedLevel(r) ==
  IF \E k \in DOMAIN log_csv : log_csv[k].row_index = r
    THEN LET last == CHOOSE k \in DOMAIN log_csv :
                       /\ log_csv[k].row_index = r
                       /\ \A j \in DOMAIN log_csv :
                            log_csv[j].row_index = r => j <= k
         IN log_csv[last].level
    ELSE "none"

\* A resumed run that has not yet saved its own log.
ResumingFromLog ==
  command = "autofill" /\ resume /\ run_no > 1 /\ pc # "done"

\* C34: in a run resumed from the saved log of the run before over the same
\* range, a row is skipped if and only if the last event that log holds for
\* the row has level OK; a row with OK events followed by an ERROR or WARN
\* event and a row the run before never reached are processed again.
C34_SkippedIffLastEventOk ==
  ResumingFromLog =>
    \A r \in start_display..end_display : Processed(r) =>
      /\ HasEvent(r, "RESUME_SKIP") <=> LastLoggedLevel(r) = "OK"
      /\ LastLoggedLevel(r) # "OK" => (clicked[r] # "none" /\ "detect" \in ops[r])
      /\ LastLoggedLevel(r) = "OK" => (ops[r] = {} /\ cnt[r] = CountSkip)

\* C34 witness: the run before logged OK events and then an ERROR for row 1
\* and stopped; the resumed run processed row 1 again and row 2 as well.
C34_Witness ==
  /\ ResumingFromLog
  /\ pc = "finish"
  /\ end_display = 2
  /\ LastLoggedLevel(1) = "ERROR"
  /\ \E k \in DOMAIN log_csv :
       log_csv[k].row_index = 1 /\ log_csv[k].level = "OK"
  /\ clicked[1] # "none"
  /\ LastLoggedLevel(2) = "none"
  /\ clicked[2] # "none"

\* The edit click of the row opened a form tab: it is open already, or it is
\* still to come.
ClickOpenedTab == "E" \in pages \/ pending = "tab"

\* C35: whenever the edit click opens a new tab, open_form_page returns that
\* tab as the form page through strategy (a) or (b); it resolves the form
\* page through the href fallback (d) only if the click opened no tab and the
\* listing tab did not navigate.
C35_ClickedTabIsFormPage ==
  [][(pc = "open" /\ command = "autofill" /\ pc' # "open") =>
       /\ ClickOpenedTab =>
            (pc' = "final" /\ new_page' \in {"E", "L"} /\ how_opened' \in {"a", "b"})
       /\ (pc' = "final" /\ how_opened' = "d") =>
            (~ClickOpenedTab /\ pending = "none")]_vars

\* C36: submit_form returns OK only if the form was already finalized (no
\* submit control could be clicked and cancel-submit is visible) or the
\* 'Ya, Submit' confirmation was clicked before a success signal was seen.
C36_OkOnlyAfterConfirm ==
  (pc = "returned" /\ call_result.fn = "submit_form"
     /\ call_result.code = "OK") =>
    \/ /\ call_env.role_at > SUBMIT_CLICK_ATTEMPTS
       /\ call_env.text_at > SUBMIT_CLICK_ATTEMPTS
       /\ call_env.cancel_visible = "yes"
    \/ /\ call_result.clicked_confirm
       /\ call_result.success_seen

FillErrorEvents(r) ==
  SelectSeq(events, LAMBDA e : e.row_index = r /\ e.stage = "FILL"
                                 /\ e.level = "ERROR")

\* C37: submit_form is called for a row only after fill_form returned without
\* an error for it; a row whose fill reported an error or raised has exactly
\* one FILL/ERROR event, its form tab closed, and no SUBMIT and no ROW_DONE
\* event.
C37_SubmitOnlyAfterCleanFill ==
  command = "autofill" =>
    \A r \in Rows :
      /\ (HasEvent(r, "SUBMIT") \/ "submit" \in ops[r]) =>
           \E k \in DOMAIN events :
             /\ events[k].row_index = r
             /\ events[k].stage = "FILL" /\ events[k].level = "OK"
      /\ FillErrorEvents(r) # <<>> =>
           /\ Len(FillErrorEvents(r)) = 1
           /\ "close_form" \in ops[r]
           /\ ~HasEvent(r, "SUBMIT")
           /\ ~HasEvent(r, "ROW_DONE")

\* C38: whenever click_edit_by_text returns, true or false, and also when a
\* matching row was found without any edit control, every live filter it
\* applied has been cleared again (every clearing of the filter taken to
\* succeed).
C38_FilterClearedOnReturn ==
  (/\ pc = "returned"
   /\ call_result.fn = "click_edit_by_text"
   /\ \A k \in DOMAIN call_env.cands : call_env.cands[k].clear)
    => call_result.out.filter = 0

\* The number a numeric text denotes: its sign, the integer digits without
\* leading zeros and the fraction digits without trailing zeros.
NumberOf(s) ==
  LET int == lstrip_char(IntegerDigits(s), "0")
      frac == rstrip_char(FractionDigits(s), "0")
  IN [neg |-> s # <<>> /\ Head(s) = "-" /\ (int # <<>> \/ frac # <<>>),
      int |-> int, frac |-> frac]

\* C39: the first variant of _text_variants is the candidate itself (without
\* the surrounding blanks), no variant is repeated, and for a numeric candidate
\* every variant denotes the same number as the candidate.
C39_VariantsDenoteCandidate ==
  (pc = "returned" /\ call_result.fn = "_text_variants"
     /\ strip(call_env.text) # <<>>)
    => LET out == call_result.out
           cand == strip(call_env.text)
       IN /\ out # <<>>
          /\ out[1] = cand
          /\ \A i, j \in DOMAIN out : out[i] = out[j] => i = j
          /\ fullmatch_number(replace_comma(cand)) =>
               \A i \in DOMAIN out :
                 /\ fullmatch_number(replace_comma(out[i]))
                 /\ NumberOf(replace_comma(out[i])) = NumberOf(replace_comma(cand))

EventsWhere(P(_)) == Len(SelectSeq(events, P))

LoggedErrors == EventsWhere(LAMBDA e : e.level = "ERROR")
LoggedOk == EventsWhere(LAMBDA e : e.stage \in {"ROW_DONE", "DRY_RUN"})
LoggedSkips ==
  EventsWhere(LAMBDA e : \/ e.stage \in {"RESUME_SKIP", "FINAL_SKIP"}
                         \/ (e.level = "WARN" /\ e.stage = "ACCESS"))

\* C40: at the end of a run of process_autofill every processed row has added
\* one to exactly one of the three counters, the error count is the number of
\* ERROR events, the ok count the number of ROW_DONE and DRY_RUN events, the
\* skip count the number of RESUME_SKIP, FINAL_SKIP and WARN/ACCESS events,
\* and without stop_on_error the counters sum to the number of rows in the
\* range.
C40_CountersAgreeWithLog ==
  (command = "autofill" /\ pc = "done") =>
    /\ \A r \in Rows : Processed(r) /\ r >= start_display =>
         cnt[r] \in {CountOk, CountError, CountSkip}
    /\ error_rows = LoggedErrors
    /\ ok_rows = LoggedOk
    /\ skipped_rows = LoggedSkips
    /\ ~stop_on_error =>
         ok_rows + error_rows + skipped_rows = end_display - start_display + 1

====
